---- MODULE Spec2Model ----
(***************************************************************************)
(* A model of the Create_QA repository: the domain-scoped crawlers          *)
(* (Crawl_URL.py, Crawl_URL_with_response.py, Crawl_URL_selenium.py) with   *)
(* their resumable state file, the QA accumulation loops                    *)
(* (Create_QA_from_jsonl_alt.py, Create_QA_from_jsonl.py, src/WebSearch.py  *)
(* and src/src/WebSearch.py), and the generation of one complete pair in    *)
(* Create_QA_from_jsonl_alt_fixed.py.                                       *)
(***************************************************************************)
EXTENDS Integers, Sequences, FiniteSets, TLC

VARIABLES
    \* ---- crawler: arguments and locals of crawl_domain / crawl_domain_with_response
    variant,      \* which crawler runs: "http" (Crawl_URL.py), "resp" (Crawl_URL_with_response.py), "selenium" (Crawl_URL_selenium.py)
    pc,           \* position of the crawl function: "idle", "loop", "fetch", "save"
    start_url,    \* argument start_url (None when omitted)
    max_urls,     \* argument max_urls
    domain,       \* local domain
    queue,        \* local queue (list)
    seen,         \* local seen (set)
    results,      \* local results (list of records)
    url,          \* local url: the URL popped in the current iteration
    state_file,   \* content of the state file on disk: <<>> when absent, else <<[queue, seen, results]>>
    \* ---- crawler: history kept for the properties
    runs,         \* number of invocations so far
    outcome,      \* how the last invocation ended; "damaged" once its state file was damaged afterwards
    fetches,      \* the fetch attempts of the current invocation, in order: URL, how the request
                  \* went, and the content type of the page that was served
    discovered,   \* the URLs of the crawl in the order in which they were first enqueued
    wrote,        \* whether the current invocation wrote the state file
    rerun,        \* the current invocation re-runs a completed crawl from its checkpoint with the same budget
    restored,     \* number of results the current invocation restored from the state file
    dropped,      \* the URLs that were dequeued but not yet fetched when an invocation was
                  \* interrupted, for the invocations the current checkpoint descends from
    \* ---- QA accumulation: the scripts' state
    script,       \* which accumulation script runs: "alt" (Create_QA_from_jsonl_alt.py),
                  \* "seq" (Create_QA_from_jsonl.py), "web" (src/src/WebSearch.py) or
                  \* "site" (src/WebSearch.py)
    qpc,          \* "idle" between processes, "running" while the script's process runs
    outfile,      \* the output JSON-Lines file: the list of its lines, oldest first
    ledger,       \* the in-memory set of (question, answer) tuples used for the duplicate check
    input,        \* the lines of the input dataset the current process was started on
    max_qa_per_url, \* argument max_qa_per_url of Create_QA_from_jsonl.py (0 for the other scripts)
    max_concurrent, \* argument max_concurrent_entries of Create_QA_from_jsonl_alt.py (0 for the
                  \* other scripts)
    entries,      \* the source identifiers of the input entries of the current process, in order
    task,         \* per input entry: position, attempt number, display list, accepted count,
                  \* and for the properties: length of outfile when the entry began (base),
                  \* number of attempts in a row that returned nothing (empties),
                  \* number of pairs the entry failed to write (unsaved)
    \* ---- QA accumulation: history kept for the properties
    qa_runs,      \* number of processes started so far
    written_for,  \* per line of outfile: the source identifier being processed when it was written
    last_gen,     \* the most recent generator return that was processed, and what it met
    file_lock,    \* file_lock of Create_QA_from_jsonl_alt.py: the task that holds it (0: free),
                  \* and how often the step taken last requested and obtained it
    \* ---- Create_QA_from_jsonl_alt_fixed.py: one call of generate_complete_qa_with_evaluation
    \* or generate_complete_qa_without_evaluation, its arguments and locals
    gpc,          \* position of the call: "idle", "basic", "evaluate", "improve", "reevaluate",
                  \* "sleep", "enrich", "returned"
    enable_evaluation,          \* which of the two functions process_single_entry calls
    max_improvement_iterations, \* argument max_improvement_iterations
    basic_qa,     \* local basic_qa (NoQA for None)
    evaluation,   \* local evaluation (NoEvaluation for None)
    current_qa,   \* local current_qa
    evaluation_score,           \* local evaluation_score (NoScore for None)
    evaluation_rating,          \* local evaluation_rating ("" for None)
    improvement_iterations,     \* local improvement_iterations
    iteration,    \* loop variable of the improvement cycle
    improved_qa,  \* local improved_qa (NoQA for None)
    re_evaluation,              \* local re_evaluation (NoEvaluation for None)
    persona_result,             \* local persona_result
    category_result,            \* local category_result
    keywords_result,            \* local keywords_result
    complete_qa,  \* the value the call returns (NoComplete for None)
    \* ---- history kept for the properties
    initial_score \* overall score of the evaluation of the pair generated first (NoScore if none)

crawl_vars == <<variant, pc, start_url, max_urls, domain, queue, seen, results, url,
                state_file, runs, outcome, fetches, discovered, wrote, rerun, restored,
                dropped>>

qa_vars == <<script, qpc, outfile, ledger, input, max_qa_per_url, max_concurrent, entries, task, qa_runs,
             written_for, last_gen, file_lock>>

gen_vars == <<gpc, enable_evaluation, max_improvement_iterations, basic_qa, evaluation,
              current_qa, evaluation_score, evaluation_rating, improvement_iterations,
              iteration, improved_qa, re_evaluation, persona_result, category_result,
              keywords_result, complete_qa, initial_score>>

vars == <<crawl_vars, qa_vars, gen_vars>>

-----------------------------------------------------------------------------
(* Bounds of the model *)

MaxRuns == 3
MaxBudget == 3
MaxQARuns == 2
MaxQPerEntry == 2
MaxQAPerUrl == 1
LongQAPerUrl == 18
MaxConcurrent == 2

-----------------------------------------------------------------------------
(* The web the crawler walks: URLs, what urlparse makes of them, and the     *)
(* hyperlinks (after urljoin) each page carries.                             *)

None == "None"

RootA == "https://a.com/"
PageA1 == "https://a.com/a"
PageA2 == "https://a.com/b"
RootB == "https://b.com/"
FtpA == "ftp://a.com/f"
\* a start URL without scheme and host
BadUrl == "nohost"

URLS == {RootA, PageA1, PageA2, RootB, FtpA}

\* urlparse(u).netloc
netloc(u) ==
    CASE u \in {RootA, PageA1, PageA2, FtpA} -> "a.com"
      [] u = RootB -> "b.com"
      [] OTHER -> ""

\* urlparse(u).scheme
scheme(u) ==
    CASE u \in {RootA, PageA1, PageA2, RootB} -> "https"
      [] u = FtpA -> "ftp"
      [] OTHER -> ""

\* [urljoin(u, a["href"]) for a in soup.find_all("a", href=True)]
Hrefs(u) ==
    CASE u = RootA -> <<PageA1, RootB, FtpA, PageA2, PageA1, RootA>>
      [] u = PageA1 -> <<RootA, PageA2>>
      [] u = PageA2 -> <<PageA1>>
      [] u = RootB -> <<RootB, PageA1>>
      [] OTHER -> <<>>

\* the Content-Type headers (lower-cased) the pages are served with
ContentTypes == {"text/html", "text/html; charset=utf-8", "application/xhtml+xml"}

\* how a request can go: a 2xx response, no response in time (timeout,
\* connection error), a response with a non-2xx status
FetchKinds == {"ok", "timeout", "status"}

\* requests (and the browser) refuse a URL that has no http or https scheme
Fetchable(u) == scheme(u) \in {"http", "https"}

\* whether the request ends in an exception that the loop catches:
\* requests.get raises on timeouts and raise_for_status() on a non-2xx status;
\* driver.get raises WebDriverException when the page cannot be loaded, and
\* loads the page of a non-2xx response like any other
Raises(v, u, kind) ==
    \/ ~Fetchable(u)
    \/ kind = "timeout"
    \/ kind = "status" /\ v # "selenium"

\* content_type.startswith('text/html')
IsHtml(ct) == ct \in {"text/html", "text/html; charset=utf-8"}

\* Python truthiness of a str-or-None value: "not x" holds for None and for ''
Falsy(x) == x = None \/ x = ""

-----------------------------------------------------------------------------
(* Helpers of the crawl loop *)

SeqToSet(s) == {s[i] : i \in 1..Len(s)}

InSeq(x, s) == \E i \in 1..Len(s) : s[i] = x

ResultUrls(res) == {res[i].url : i \in 1..Len(res)}

\* a queue served from its tail
PopLast(q) == [url |-> q[Len(q)], rest |-> SubSeq(q, 1, Len(q) - 1)]

\* url = queue.pop(0)
Pop(q) == [url |-> Head(q), rest |-> Tail(q)]

\* discovered after the queue grew from q to q1: the appended URLs that were
\* never enqueued before, in order
RECURSIVE Discover(_, _)
Discover(d, new) ==
    IF new = <<>> THEN d
    ELSE Discover(IF InSeq(Head(new), d) THEN d ELSE Append(d, Head(new)), Tail(new))

\* a crawler that forgets to mark the dequeued URL
MarkSeenSkipped(s, u) == s

\* seen.add(url) at the start of an iteration
MarkSeen(s, u) == s \cup {u}

\* the filter on one extracted link: same host as domain, http or https
LinkInDomain(link, dom) ==
    netloc(link) = dom /\ scheme(link) \in {"http", "https"}

\* a crawler that appends every link of the domain
EnqueueAlways(q, s, link) == Append(q, link)

\* enqueueIfNew: the link is appended unless it is in seen or already queued
EnqueueIfNew(q, s, link) ==
    IF link \notin s /\ ~InSeq(link, q) THEN Append(q, link) ELSE q

\* the for loop over the page's links, in document order
RECURSIVE EnqueueLinks(_, _, _, _)
EnqueueLinks(q, s, links, dom) ==
    IF links = <<>> THEN q
    ELSE LET link == Head(links)
             q1 == IF LinkInDomain(link, dom) THEN EnqueueIfNew(q, s, link) ELSE q
         IN EnqueueLinks(q1, s, Tail(links), dom)

\* the record appended for a fetched URL; Crawl_URL_selenium.py records no
\* content type
PageRecord(v, dom, u, ct) ==
    [domain |-> dom, url |-> u, content_type |-> IF v = "selenium" THEN None ELSE ct]

\* results after recording: Crawl_URL.py and Crawl_URL_selenium.py append unless
\* an equal record is present, Crawl_URL_with_response.py appends always
RecordResult(v, res, rec) ==
    IF v # "resp" /\ InSeq(rec, res) THEN res ELSE Append(res, rec)

\* whether links are extracted from the fetched page: the requests crawlers
\* parse HTML responses only, the browser crawler reads the anchors of any page
ExtractsLinks(v, ct) == v = "selenium" \/ IsHtml(ct)

\* a stop test that counts the URLs marked seen
LoopCondCountsSeen(q, res, mu) == q # <<>> /\ Cardinality(seen) < mu

\* while queue and len(results) < max_urls
LoopCond(q, res, mu) == q # <<>> /\ Len(res) < mu

\* the dictionary written to the state file; parsable: json.load can read
\* the file back
Snapshot(q, s, res) == [queue |-> q, seen |-> s, results |-> res, parsable |-> TRUE]

\* a state file that json.load cannot parse
Corrupt == [queue |-> <<>>, seen |-> {}, results |-> <<>>, parsable |-> FALSE]

-----------------------------------------------------------------------------
(* Initial state: no invocation yet, no state file on disk *)

CrawlStart(v) ==
    /\ variant = v
    /\ pc = "idle"
    /\ start_url = None
    /\ max_urls = 1
    /\ domain = None
    /\ queue = <<>>
    /\ seen = {}
    /\ results = <<>>
    /\ url = None
    /\ state_file = <<>>
    /\ runs = 0
    /\ outcome = "none"
    /\ fetches = <<>>
    /\ discovered = <<>>
    /\ wrote = FALSE
    /\ rerun = FALSE
    /\ restored = 0
    /\ dropped = {}

InitCrawl == \E v \in {"http", "resp", "selenium"} : CrawlStart(v)

-----------------------------------------------------------------------------
(* Start of an invocation: the code before the loop.  Each operator gives    *)
(* the locals at the point where the function either enters the loop         *)
(* (ok = TRUE) or returns [] (ok = FALSE).                                    *)

StartLocals(ok, dom, q, s, res) ==
    [ok |-> ok, domain |-> dom, queue |-> q, seen |-> s, results |-> res]

\* domain = urlparse(start_url).netloc if start_url else None
DomainOf(su) == IF su # None THEN netloc(su) ELSE None

\* Crawl_URL.py, lines 18-78, and Crawl_URL_selenium.py, lines 22-78
StartHttp(su, file) ==
    LET dom0 == DomainOf(su) IN
    IF file = <<Corrupt>> THEN
        IF Falsy(su) THEN StartLocals(FALSE, dom0, <<>>, {}, <<>>)
        ELSE StartLocals(~Falsy(dom0), dom0, <<su>>, {}, <<>>)
    ELSE IF file # <<>> THEN
        LET q == file[1].queue
            s == file[1].seen
            res == file[1].results
            dom1 == IF Falsy(dom0) /\ res # <<>> /\ ~Falsy(res[1].domain)
                    THEN res[1].domain ELSE dom0
            dom2 == IF Falsy(dom1) /\ q # <<>> THEN netloc(q[1]) ELSE dom1
        IN  IF su = None /\ q = <<>> THEN StartLocals(FALSE, dom1, q, s, res)
            ELSE IF Falsy(dom2) THEN StartLocals(FALSE, dom2, q, s, res)
            ELSE StartLocals(TRUE, dom2, q, s, res)
    ELSE IF su # None THEN
        StartLocals(~Falsy(dom0), dom0, <<su>>, {}, <<>>)
    ELSE StartLocals(FALSE, dom0, <<>>, {}, <<>>)

\* Crawl_URL_with_response.py, lines 18-41
StartResp(su, file) ==
    LET dom0 == DomainOf(su) IN
    IF file = <<Corrupt>> THEN StartLocals(TRUE, dom0, <<su>>, {}, <<>>)
    ELSE IF file # <<>> THEN
        LET q == file[1].queue
            s == file[1].seen
            res == file[1].results
        IN  StartLocals(~(su = None /\ q = <<>>), dom0, q, s, res)
    ELSE IF su # None THEN StartLocals(TRUE, dom0, <<su>>, {}, <<>>)
    ELSE StartLocals(FALSE, dom0, <<>>, {}, <<>>)

\* a restore that drops the saved seen set
StartOfForgetsSeen(v, su, file) ==
    [(IF v = "resp" THEN StartResp(su, file) ELSE StartHttp(su, file)) EXCEPT !.seen = {}]

StartOf(v, su, file) == IF v = "resp" THEN StartResp(su, file) ELSE StartHttp(su, file)

\* the state file exists and can be read: queue, seen and results come from it
Restores(file) == file # <<>> /\ file # <<Corrupt>>

\* the previous invocation ran its loop to the end and left its checkpoint
Completed == outcome \in {"exhausted", "budget"} /\ wrote /\ state_file # <<>>

Start(su, mu) ==
    /\ pc = "idle"
    /\ runs < MaxRuns
    /\ LET l == StartOf(variant, su, state_file) IN
        /\ start_url' = su
        /\ max_urls' = mu
        /\ domain' = l.domain
        /\ queue' = l.queue
        /\ seen' = l.seen
        /\ results' = l.results
        /\ pc' = IF l.ok THEN "loop" ELSE "idle"
        /\ outcome' = IF l.ok THEN "running" ELSE "failed"
        /\ restored' = Len(l.results)
    /\ rerun' = (Completed /\ mu = max_urls)
    /\ runs' = runs + 1
    /\ url' = None
    /\ fetches' = <<>>
    /\ discovered' = IF Restores(state_file) THEN discovered
                     ELSE StartOf(variant, su, state_file).queue
    /\ wrote' = FALSE
    /\ dropped' = IF Restores(state_file) THEN dropped ELSE {}
    /\ UNCHANGED <<variant, state_file>>
    /\ UNCHANGED <<qa_vars, gen_vars>>

-----------------------------------------------------------------------------
(* The loop body *)

\* url = queue.pop(0); if url in seen: continue; seen.add(url)
Dequeue ==
    /\ pc = "loop"
    /\ LoopCond(queue, results, max_urls)
    /\ url' = Pop(queue).url
    /\ queue' = Pop(queue).rest
    /\ IF Pop(queue).url \in seen
       THEN /\ pc' = "loop"
            /\ UNCHANGED seen
       ELSE /\ seen' = MarkSeen(seen, Pop(queue).url)
            /\ pc' = "fetch"
    /\ UNCHANGED <<variant, start_url, max_urls, domain, results, state_file,
                   runs, outcome, fetches, discovered, wrote, rerun, restored, dropped>>
    /\ UNCHANGED <<qa_vars, gen_vars>>

\* a crawler that would reach the end of the iteration after a failed request too
AfterFetchAlways(v, ok) == IF v = "resp" THEN "save" ELSE "loop"

\* Crawl_URL_with_response.py, lines 58-64 and 99-110: a failed request ends the
\* iteration with "continue", a successful one reaches the state saving at the
\* end of the iteration; the other crawlers save nothing inside the loop
AfterFetch(v, ok) == IF v = "resp" /\ ok THEN "save" ELSE "loop"

\* the request raises and the exception is caught: continue
FetchFail(kind) ==
    /\ pc = "fetch"
    /\ Raises(variant, url, kind)
    /\ fetches' = Append(fetches, [url |-> url, kind |-> kind, ct |-> None])
    /\ pc' = AfterFetch(variant, FALSE)
    /\ UNCHANGED <<variant, start_url, max_urls, domain, queue, seen, results, url,
                   state_file, runs, outcome, discovered, wrote, rerun, restored, dropped>>
    /\ UNCHANGED <<qa_vars, gen_vars>>

\* the request does not raise; the page has content type ct: record it,
\* collect its links
FetchOK(kind, ct) ==
    /\ pc = "fetch"
    /\ ~Raises(variant, url, kind)
    /\ fetches' = Append(fetches, [url |-> url, kind |-> kind, ct |-> ct])
    /\ results' = RecordResult(variant, results, PageRecord(variant, domain, url, ct))
    /\ LET q1 == IF ExtractsLinks(variant, ct)
                 THEN EnqueueLinks(queue, seen, Hrefs(url), domain) ELSE queue
       IN /\ queue' = q1
          /\ discovered' = Discover(discovered, SubSeq(q1, Len(queue) + 1, Len(q1)))
    /\ pc' = AfterFetch(variant, TRUE)
    /\ UNCHANGED <<variant, start_url, max_urls, domain, seen, url, state_file,
                   runs, outcome, wrote, rerun, restored, dropped>>
    /\ UNCHANGED <<qa_vars, gen_vars>>

\* Crawl_URL_with_response.py, lines 99-110: the state file is written at the end
\* of an iteration whose fetch succeeded
SaveState ==
    /\ pc = "save"
    /\ state_file' = <<Snapshot(queue, seen, results)>>
    /\ wrote' = TRUE
    /\ pc' = "loop"
    /\ UNCHANGED <<variant, start_url, max_urls, domain, queue, seen, results, url,
                   runs, outcome, fetches, discovered, rerun, restored, dropped>>
    /\ UNCHANGED <<qa_vars, gen_vars>>

-----------------------------------------------------------------------------
(* Leaving the loop *)

\* Crawl_URL.py, lines 146-147, Crawl_URL_selenium.py, lines 139-140: the URLs
\* of results are added to seen before the dump
PersistedSeen(s, res) == s \cup ResultUrls(res)

\* The code that runs when the loop is left: the finally blocks of Crawl_URL.py
\* (lines 142-160) and Crawl_URL_selenium.py (lines 135-146) write the state
\* file; the finally block of Crawl_URL_with_response.py (lines 114-115) is "pass".
Finally(how) ==
    /\ IF variant # "resp"
       THEN /\ seen' = PersistedSeen(seen, results)
            /\ state_file' = <<Snapshot(queue, PersistedSeen(seen, results), results)>>
            /\ wrote' = TRUE
       ELSE UNCHANGED <<seen, state_file, wrote>>
    /\ outcome' = how
    /\ dropped' = IF how = "interrupted" /\ pc = "fetch" THEN dropped \cup {url} ELSE dropped
    /\ pc' = "idle"
    /\ UNCHANGED <<variant, start_url, max_urls, domain, queue, results, url,
                   runs, fetches, discovered, rerun, restored>>
    /\ UNCHANGED <<qa_vars, gen_vars>>

\* the while condition is false: the loop ends normally
LoopExit ==
    /\ pc = "loop"
    /\ ~LoopCond(queue, results, max_urls)
    /\ Finally(IF Len(results) >= max_urls THEN "budget" ELSE "exhausted")

\* KeyboardInterrupt while the loop runs
Interrupt ==
    /\ pc \in {"loop", "fetch", "save"}
    /\ Finally("interrupted")

\* between two invocations the state file is left unparsable (a dump that was
\* cut short, a file of another format under the same name)
Damage ==
    /\ pc = "idle"
    /\ Restores(state_file)
    /\ state_file' = <<Corrupt>>
    /\ outcome' = "damaged"
    /\ rerun' = FALSE
    /\ UNCHANGED <<variant, pc, start_url, max_urls, domain, queue, seen, results, url,
                   runs, fetches, discovered, wrote, restored, dropped>>
    /\ UNCHANGED <<qa_vars, gen_vars>>

-----------------------------------------------------------------------------

NextCrawl ==
    \/ \E su \in {None, RootA, RootB, BadUrl}, mu \in 1..MaxBudget : Start(su, mu)
    \/ Dequeue
    \/ \E kind \in FetchKinds : FetchFail(kind)
    \/ \E kind \in FetchKinds, ct \in ContentTypes : FetchOK(kind, ct)
    \/ Damage
    \/ SaveState
    \/ LoopExit
    \/ Interrupt

-----------------------------------------------------------------------------
(* QA accumulation: the data the three scripts share                         *)

\* source identifiers of the input, and a source_url no input entry carries
SOURCES == {"https://s/1", "https://s/2"}
WrongUrl == "https://wrong"

\* the (question, answer) texts the generator may produce; a question may be
\* the empty string, which pydantic's str field accepts
PAIRS == {<<"Q1", "A1">>, <<"", "A1">>}

\* a QAPair as the generator returns it for source sid: any text, and a
\* source_url that is the requested one or another
QAPair(t, su) == [question |-> t[1], answer |-> t[2], source_url |-> su]

Candidates(sid) == {QAPair(t, su) : t \in PAIRS, su \in {sid, WrongUrl}}

NoQA == QAPair(<<"", "">>, "")

\* what one generator call can end in: a pair, nothing (final_output empty), an exception
GenOutcomes(sid) ==
    {[kind |-> "pair", qa |-> c] : c \in Candidates(sid)}
        \cup {[kind |-> "none", qa |-> NoQA], [kind |-> "raise", qa |-> NoQA]}

\* a line of the input dataset that is not JSON
Malformed == "{not json"

\* the input files the model offers: their lines, each the source identifier
\* of a well-formed entry or a malformed line
ENTRY_LISTS ==
    { <<"https://s/1", "https://s/2">>,
      <<"https://s/1", "https://s/1">>,
      <<Malformed, "https://s/1">> }

\* the entries read from the lines when a line that cannot be parsed is skipped
WellFormed(lines) == SelectSeq(lines, LAMBDA l : l # Malformed)

\* (qa.question, qa.answer): the identity used by the duplicate check
QATuple(qa) == <<qa.question, qa.answer>>

\* the set of (question, answer) tuples of all lines of a file
FileTuples(f) == {QATuple(f[i]) : i \in 1..Len(f)}

\* f"- Q: {q}\n  A: {a}": the display string handed to the generator
DisplayString(q, a) == <<"- Q: ", q, "  A: ", a>>

\* collect_existing_qa_for_source: the display strings of the lines of the
\* file whose source_url is sid and whose question and answer are non-empty
RECURSIVE CollectExisting(_, _)
CollectExisting(f, sid) ==
    IF f = <<>> THEN <<>>
    ELSE LET l == Head(f)
             rest == CollectExisting(Tail(f), sid)
         IN IF l.source_url = sid /\ ~Falsy(l.question) /\ ~Falsy(l.answer)
            THEN <<DisplayString(l.question, l.answer)>> \o rest
            ELSE rest

\* a generator wrapper that passes the returned source_url on
CorrectSourceOmitted(qa, sid) == qa

\* generate_single_qa / generate_basic_qa: a returned source_url that differs
\* from the requested identifier is replaced by it
CorrectSource(qa, sid) ==
    IF qa.source_url # sid THEN [qa EXCEPT !.source_url = sid] ELSE qa

NewTask == [pc |-> "waiting", attempt |-> 0, display |-> <<>>, added |-> 0,
            base |-> 0, empties |-> 0, unsaved |-> 0]

\* nothing logged: no pair was returned by the generator call processed last
NoGen == [source |-> "", batch |-> <<>>, novel |-> <<>>, flen |-> 0, room |-> 0, saved |-> FALSE]

\* file_lock = threading.Lock() (Create_QA_from_jsonl_alt.py, line 99): not held
LockFree == [holder |-> 0, requested |-> 0, obtained |-> 0]

\* a request of the lock that has not been granted: threading.Lock is not
\* reentrant and the tasks share one thread, so the thread waits for ever
Blocked == file_lock.requested > file_lock.obtained

\* one operation of task i on the lock: "acquire" (entering "with file_lock:")
\* takes a free lock and waits on a held one, "release" (leaving the block)
\* frees it; nothing after a request that waits is executed
LockOp(l, i, op) ==
    IF l.requested > l.obtained THEN l
    ELSE IF op = "acquire"
    THEN IF l.holder = 0
         THEN [holder |-> i, requested |-> l.requested + 1, obtained |-> l.obtained + 1]
         ELSE [l EXCEPT !.requested = @ + 1]
    ELSE [l EXCEPT !.holder = 0]

\* the lock after task i has run the operations ops, one after the other,
\* between two awaits
RECURSIVE RunLockOps(_, _, _)
RunLockOps(l, i, ops) ==
    IF ops = <<>> THEN l ELSE RunLockOps(LockOp(l, i, Head(ops)), i, Tail(ops))

RunLock(l, i, ops) == RunLockOps([l EXCEPT !.requested = 0, !.obtained = 0], i, ops)

\* collect_existing_qa_for_source, lines 106-117: the file, when it exists, is
\* read inside "with file_lock:"
CollectLockOps(f) == IF f # <<>> THEN <<"acquire", "release">> ELSE <<>>

\* a task that writes the pair inside the block of the duplicate check
GeneratedLockOpsNested(returned, novel) ==
    IF ~returned THEN <<>>
    ELSE IF novel THEN <<"acquire", "acquire", "release", "release">>
    ELSE <<"acquire", "release">>

\* process_single_entry, lines 175-186: the duplicate check and the ledger
\* insert run inside "with file_lock:" (lines 179-182); save_qa_to_file is
\* called after the block is left and takes the lock itself (lines 125-127);
\* a write that raises leaves the with block and releases the lock
GeneratedLockOps(returned, novel) ==
    IF ~returned THEN <<>>
    ELSE IF novel THEN <<"acquire", "release", "acquire", "release">>
    ELSE <<"acquire", "release">>

QAStart(sc) ==
    /\ script = sc
    /\ qpc = "idle"
    /\ outfile = <<>>
    /\ ledger = {}
    /\ input = <<>>
    /\ max_qa_per_url = 0
    /\ max_concurrent = 0
    /\ entries = <<>>
    /\ task = <<>>
    /\ qa_runs = 0
    /\ written_for = <<>>
    /\ last_gen = NoGen
    /\ file_lock = LockFree

InitQA == \E sc \in {"alt", "seq", "web", "site"} : QAStart(sc)

-----------------------------------------------------------------------------
(* Create_QA_from_jsonl_alt.py: entries processed concurrently under a       *)
(* semaphore, one pair per generator call.  Between two awaits a task runs   *)
(* without interruption, so each action below is the code from one await to  *)
(* the next.                                                                 *)

\* the process ends: its memory is gone, the output file stays as it is
ProcessExit ==
    /\ qpc' = "idle"
    /\ ledger' = {}
    /\ input' = <<>>
    /\ max_qa_per_url' = 0
    /\ max_concurrent' = 0
    /\ entries' = <<>>
    /\ task' = <<>>
    /\ last_gen' = NoGen
    /\ file_lock' = LockFree
    /\ UNCHANGED <<script, outfile, qa_runs, written_for>>
    /\ UNCHANGED <<crawl_vars, gen_vars>>

\* a semaphore that lets every task in
SemaphoreAlwaysFree(held, n) == TRUE

\* asyncio.Semaphore(max_concurrent_entries): async with semaphore lets a
\* task in while fewer than n tasks hold it
SemaphoreFree(held, n) == held < n

\* tasks that hold the semaphore
Holding == {i \in 1..Len(task) : task[i].pc \in {"gen", "sleep"}}

\* process_jsonl_parallel_entries, lines 230-271: seed the ledger from the
\* output file, read the entries, create one task per entry.  The entries are
\* read with jsonlines outside any try block (lines 242-247): a line that is
\* not JSON raises out of the function before any task is created.
AltRunStart(lines, n) ==
    /\ script = "alt"
    /\ qpc = "idle"
    /\ qa_runs < MaxQARuns
    /\ max_concurrent' = n
    /\ ledger' = FileTuples(outfile)
    /\ input' = lines
    /\ IF \E k \in 1..Len(lines) : lines[k] = Malformed
       THEN /\ entries' = <<>>
            /\ task' = <<>>
            /\ qpc' = "aborted"
       ELSE /\ entries' = lines
            /\ task' = [i \in 1..Len(lines) |-> NewTask]
            /\ qpc' = "running"
    /\ qa_runs' = qa_runs + 1
    /\ last_gen' = NoGen
    /\ file_lock' = LockFree
    /\ UNCHANGED <<script, max_qa_per_url, outfile, written_for>>
    /\ UNCHANGED <<crawl_vars, gen_vars>>

\* the exception leaves asyncio.run: the process ends
AltAborted ==
    /\ script = "alt"
    /\ qpc = "aborted"
    /\ ProcessExit

\* async with semaphore, then process_single_entry up to its first await:
\* the existing QA of the source are collected from the file
AltAcquire(i) ==
    /\ script = "alt"
    /\ qpc = "running"
    /\ i \in 1..Len(task)
    /\ task[i].pc = "waiting"
    /\ ~Blocked
    /\ SemaphoreFree(Cardinality(Holding), max_concurrent)
    /\ file_lock' = RunLock(file_lock, i, CollectLockOps(outfile))
    /\ task' = [task EXCEPT ![i] = [pc |-> "gen", attempt |-> 0,
                                    display |-> CollectExisting(outfile, entries[i]),
                                    added |-> 0, base |-> Len(outfile), empties |-> 0,
                                    unsaved |-> 0]]
    /\ UNCHANGED <<script, input, max_qa_per_url, max_concurrent, qpc, outfile, ledger, entries, qa_runs,
                   written_for, last_gen>>
    /\ UNCHANGED <<crawl_vars, gen_vars>>

\* a gather that lets the first exception through: the run is over for all
AfterRaiseCancelsAll(t, i) == [j \in DOMAIN t |-> [t[j] EXCEPT !.pc = "failed"]]

\* generate_single_qa has no try block: what Runner.run raises leaves
\* process_single_entry and ends task i; asyncio.gather(return_exceptions=True)
\* (line 271) keeps it as a result and lets the other tasks run
AfterRaise(t, i) == [t EXCEPT ![i].pc = "failed"]

\* a ledger that takes the tuple only when the pair was written
RememberedIfSaved(led, t, ok) == IF ok THEN led \cup {t} ELSE led

\* global_existing_qa_set.add(current_qa_tuple), line 182, before
\* save_qa_to_file is called at line 186 and whatever it returns
Remembered(led, t, ok) == led \cup {t}

\* the awaited generate_single_qa returns (or raises), and the task runs on to
\* its next await, the sleep at the end of the attempt (lines 167-201);
\* ok: whether save_qa_to_file manages to append
AltGenerated(i, out, ok) ==
    /\ script = "alt"
    /\ qpc = "running"
    /\ i \in 1..Len(task)
    /\ task[i].pc = "gen"
    /\ ~Blocked
    /\ LET sid == entries[i]
           qa == CorrectSource(out.qa, sid)
           is_duplicate == QATuple(qa) \in ledger
           saved == out.kind = "pair" /\ ~is_duplicate /\ ok
       IN
        /\ file_lock' = RunLock(file_lock, i,
                                GeneratedLockOps(out.kind = "pair", ~is_duplicate))
        /\ ledger' = IF out.kind = "pair" /\ ~is_duplicate
                     THEN Remembered(ledger, QATuple(qa), ok) ELSE ledger
        /\ outfile' = IF saved THEN Append(outfile, qa) ELSE outfile
        /\ written_for' = IF saved THEN Append(written_for, sid) ELSE written_for
        /\ task' = IF out.kind = "raise" THEN AfterRaise(task, i)
                    ELSE [task EXCEPT ![i] =
                            IF saved
                            THEN [@ EXCEPT !.pc = "sleep",
                                           !.display = Append(@, DisplayString(qa.question,
                                                                               qa.answer)),
                                           !.added = @ + 1]
                            ELSE IF out.kind = "pair" /\ ~is_duplicate
                            THEN [@ EXCEPT !.pc = "sleep", !.unsaved = @ + 1]
                            ELSE [@ EXCEPT !.pc = "sleep"]]
        /\ last_gen' = IF out.kind = "pair"
                       THEN [source |-> sid, batch |-> <<out.qa>>,
                             novel |-> <<QATuple(out.qa) \notin ledger>>,
                             flen |-> Len(outfile), room |-> 1, saved |-> ok]
                       ELSE NoGen
    /\ UNCHANGED <<script, input, max_qa_per_url, max_concurrent, qpc, entries, qa_runs>>
    /\ UNCHANGED <<crawl_vars, gen_vars>>

\* the sleep ends: next attempt of range(max_q_per_entry), or the entry is done
AltSlept(i) ==
    /\ script = "alt"
    /\ qpc = "running"
    /\ i \in 1..Len(task)
    /\ task[i].pc = "sleep"
    /\ ~Blocked
    /\ file_lock' = RunLock(file_lock, i, <<>>)
    /\ task' = [task EXCEPT ![i] =
                  IF @.attempt + 1 < MaxQPerEntry
                  THEN [@ EXCEPT !.attempt = @ + 1, !.pc = "gen"]
                  ELSE [@ EXCEPT !.attempt = @ + 1, !.pc = "done"]]
    /\ UNCHANGED <<script, input, max_qa_per_url, max_concurrent, qpc, outfile, ledger, entries, qa_runs, written_for, last_gen>>
    /\ UNCHANGED <<crawl_vars, gen_vars>>

\* asyncio.gather returns: every task has finished or failed; the process ends
AltRunEnd ==
    /\ script = "alt"
    /\ qpc = "running"
    /\ ~Blocked
    /\ \A i \in 1..Len(task) : task[i].pc \in {"done", "failed"}
    /\ ProcessExit

\* the process is killed while it runs
Kill ==
    /\ qpc = "running"
    /\ ProcessExit

-----------------------------------------------------------------------------
(* Create_QA_from_jsonl.py: the sources are processed one after the other,   *)
(* each generator call returns a list of pairs.                              *)

\* len(PERSONAS) and QA_PER_REQUEST
NumPersonas == 8
QA_PER_REQUEST == 3

\* a script that never finds its cap reached
CapReachedNever(count, cap) == FALSE

\* generated_qa_for_this_url_count >= max_qa_per_url, lines 152, 183 and 204
CapReached(count, cap) == count >= cap

\* the attempt index beyond which an attempt that returned nothing ends the
\* URL: attempt > len(PERSONAS) * 2, line 173
EmptyAbortIndex == NumPersonas * 2

\* max_attempts_per_persona_cycle, line 149
MaxAttemptsPerCycle(max_qa) == (max_qa \div QA_PER_REQUEST) + NumPersonas + 5

\* the lists a generator call can return for source sid: nothing, one pair, or
\* two pairs the second of which carries another source_url
Batches(sid) ==
    {<<>>} \cup {<<c>> : c \in Candidates(sid)}
           \cup {<<QAPair(t1, sid), QAPair(t2, WrongUrl)>> : t1 \in PAIRS, t2 \in PAIRS}

\* url_to_text_map: the distinct URLs of the input in order of first appearance
RECURSIVE UniqueUrls(_)
UniqueUrls(es) ==
    IF es = <<>> THEN <<>>
    ELSE LET front == UniqueUrls(SubSeq(es, 1, Len(es) - 1))
             last == es[Len(es)]
         IN IF InSeq(last, front) THEN front ELSE Append(front, last)

\* all_existing_qa_tuples as rebuilt at the start of a source, lines 125-136:
\* only lines whose question and answer are both non-empty are taken
LedgerOfLines(f) ==
    {QATuple(f[i]) : i \in {j \in 1..Len(f) : ~Falsy(f[j].question) /\ ~Falsy(f[j].answer)}}

\* generate_qa_for_text, lines 90-95: the QAPair is built with source_url=url
ForceSource(item, u) == [item EXCEPT !.source_url = u]

\* the for loop over the returned pairs, lines 182-196; st holds the file,
\* the ledger, the display list and the count of pairs accepted for the URL
RECURSIVE AcceptPairs(_, _, _)
AcceptPairs(batch, u, st) ==
    IF batch = <<>> \/ CapReached(st.count, st.cap) THEN st
    ELSE LET qa == ForceSource(Head(batch), u)
             st1 == IF QATuple(qa) \notin st.ledger
                    THEN [st EXCEPT !.file = Append(st.file, qa),
                                    !.ledger = st.ledger \cup {QATuple(qa)},
                                    !.display = Append(st.display,
                                                       DisplayString(qa.question, qa.answer)),
                                    !.count = st.count + 1]
                    ELSE st
         IN AcceptPairs(Tail(batch), u, st1)

\* n copies of x, for the history of who wrote each line
RECURSIVE Copies(_, _)
Copies(x, n) == IF n = 0 THEN <<>> ELSE <<x>> \o Copies(x, n - 1)

\* for each pair of a batch: whether its tuple is outside the set
NovelFlags(batch, set) == [k \in 1..Len(batch) |-> QATuple(batch[k]) \notin set]

\* the input lines and the --max_qa_per_url a run is started with: every
\* input with the small cap, a single URL with the large one
SEQ_ARGS ==
    {<<es, MaxQAPerUrl>> : es \in ENTRY_LISTS} \cup {<<<<"https://s/1">>, LongQAPerUrl>>}

\* main_process, lines 217-238: a line that is not JSON is skipped (lines
\* 224-232), the URLs of the other lines are collected
SeqRunStart(lines, mq) ==
    /\ script = "seq"
    /\ qpc = "idle"
    /\ qa_runs < MaxQARuns
    /\ input' = lines
    /\ max_qa_per_url' = mq
    /\ max_concurrent' = 0
    /\ entries' = UniqueUrls(WellFormed(lines))
    /\ task' = [i \in 1..Len(UniqueUrls(WellFormed(lines))) |-> NewTask]
    /\ qpc' = "running"
    /\ qa_runs' = qa_runs + 1
    /\ UNCHANGED <<script, outfile, ledger, written_for, last_gen>>
    /\ UNCHANGED <<file_lock, crawl_vars, gen_vars>>

\* process_url_content starts for the next URL: lines 121-149
SeqBegin(i) ==
    /\ script = "seq"
    /\ qpc = "running"
    /\ i \in 1..Len(task)
    /\ task[i].pc = "waiting"
    /\ \A j \in 1..(i - 1) : task[j].pc = "done"
    /\ ledger' = LedgerOfLines(outfile)
    /\ task' = [task EXCEPT ![i] = [pc |-> "gen", attempt |-> 0,
                                    display |-> CollectExisting(outfile, entries[i]),
                                    added |-> 0, base |-> Len(outfile), empties |-> 0,
                                    unsaved |-> 0]]
    /\ UNCHANGED <<script, input, max_qa_per_url, max_concurrent, qpc, outfile, entries, qa_runs,
                   written_for, last_gen>>
    /\ UNCHANGED <<file_lock, crawl_vars, gen_vars>>

\* one pass of the attempt loop, lines 151-208: the generator returns batch
\* (an empty list also when the call or the parsing failed)
SeqGenerated(i, batch) ==
    /\ script = "seq"
    /\ qpc = "running"
    /\ i \in 1..Len(task)
    /\ task[i].pc = "gen"
    /\ LET t == task[i]
           u == entries[i]
           st == AcceptPairs(batch, u, [file |-> outfile, ledger |-> ledger,
                                        display |-> t.display, count |-> t.added,
                                        cap |-> max_qa_per_url])
           stop == IF batch = <<>>
                   THEN t.attempt > EmptyAbortIndex
                   ELSE CapReached(st.count, max_qa_per_url)
           last == t.attempt + 1 >= MaxAttemptsPerCycle(max_qa_per_url)
       IN
        /\ outfile' = st.file
        /\ ledger' = st.ledger
        /\ written_for' = written_for \o Copies(u, Len(st.file) - Len(outfile))
        /\ task' = [task EXCEPT ![i] =
                      [pc |-> IF stop \/ last THEN "done" ELSE "gen",
                       attempt |-> t.attempt + 1,
                       display |-> st.display,
                       added |-> st.count,
                       base |-> t.base,
                       empties |-> IF batch = <<>> THEN t.empties + 1 ELSE 0,
                       unsaved |-> t.unsaved]]
        /\ last_gen' = IF batch # <<>>
                       THEN [source |-> u, batch |-> batch,
                             novel |-> NovelFlags(batch, ledger),
                             flen |-> Len(outfile), room |-> max_qa_per_url - t.added,
                             saved |-> TRUE]
                       ELSE NoGen
    /\ UNCHANGED <<script, input, max_qa_per_url, max_concurrent, qpc, entries, qa_runs>>
    /\ UNCHANGED <<file_lock, crawl_vars, gen_vars>>

\* the generator returned pairs and open(outfile, "a") of line 180 raises:
\* the with statement is in no try block, neither here nor in main_process
\* (line 247), so the exception leaves process_url_content in the middle of
\* the attempt loop
SeqOpenFailed(i) ==
    /\ script = "seq"
    /\ qpc = "running"
    /\ i \in 1..Len(task)
    /\ task[i].pc = "gen"
    /\ task' = [task EXCEPT ![i].pc = "crashed", ![i].unsaved = @ + 1]
    /\ last_gen' = NoGen
    /\ UNCHANGED <<script, input, max_qa_per_url, max_concurrent, qpc, outfile, ledger,
                   entries, qa_runs, written_for>>
    /\ UNCHANGED <<file_lock, crawl_vars, gen_vars>>

\* the for loop over the URLs has ended, or the exception leaves asyncio.run
SeqRunEnd ==
    /\ script = "seq"
    /\ qpc = "running"
    /\ \/ \A i \in 1..Len(task) : task[i].pc = "done"
       \/ \E i \in 1..Len(task) : task[i].pc = "crashed"
    /\ ProcessExit

-----------------------------------------------------------------------------
(* src/src/WebSearch.py, collect_qa: one target URL, the file is read again  *)
(* before every attempt, each generator call returns a list of pairs.        *)

MaxAttempts == 2

\* a filter that lets every source_url through
SourceMatchesAny(qa, target) == TRUE

\* qa.source_url == target_url, line 104
SourceMatches(qa, target) == qa.source_url = target

\* the filter of lines 100-116: pairs with another source_url are dropped, then
\* pairs already in the file or already taken in this attempt
RECURSIVE FilterBatch(_, _, _, _)
FilterBatch(batch, target, existing, processed) ==
    IF batch = <<>> THEN <<>>
    ELSE LET qa == Head(batch)
             keep == /\ ~Falsy(qa.source_url)
                     /\ SourceMatches(qa, target)
                     /\ QATuple(qa) \notin existing
                     /\ QATuple(qa) \notin processed
         IN IF keep
            THEN <<qa>> \o FilterBatch(Tail(batch), target, existing, processed \cup {QATuple(qa)})
            ELSE FilterBatch(Tail(batch), target, existing, processed)

\* a loop that goes on to its last attempt whatever an attempt added
WebLoopEndsAtBudget(filtered, attempt_count) == attempt_count >= MaxAttempts

\* the while loop is over: the break of line 128 when the attempt added
\* nothing, or attempt_count < max_attempts false, line 44
WebLoopEnds(filtered, attempt_count) == filtered = <<>> \/ attempt_count >= MaxAttempts

\* collect_qa is called for target
WebRunStart(target) ==
    /\ script = "web"
    /\ qpc = "idle"
    /\ qa_runs < MaxQARuns
    /\ input' = <<target>>
    /\ entries' = <<target>>
    /\ task' = <<[NewTask EXCEPT !.pc = "gen", !.base = Len(outfile)]>>
    /\ qpc' = "running"
    /\ qa_runs' = qa_runs + 1
    /\ UNCHANGED <<script, max_qa_per_url, max_concurrent, outfile, ledger, written_for,
                   last_gen>>
    /\ UNCHANGED <<file_lock, crawl_vars, gen_vars>>

\* one pass of the while loop, lines 44-131: the file is read, the generator
\* returns batch, the filtered pairs are appended; no new pair ends the loop
WebAttempt(i, batch) ==
    /\ script = "web"
    /\ qpc = "running"
    /\ i = 1
    /\ task[i].pc = "gen"
    /\ LET target == entries[i]
           existing == FileTuples(outfile)
           filtered == FilterBatch(batch, target, existing, {})
           attempt_count == task[1].attempt + 1
       IN
        /\ ledger' = existing
        /\ outfile' = outfile \o filtered
        /\ written_for' = written_for \o Copies(target, Len(filtered))
        /\ task' = [task EXCEPT ![1] =
                      [pc |-> IF WebLoopEnds(filtered, attempt_count) THEN "done" ELSE "gen",
                       attempt |-> attempt_count,
                       display |-> CollectExisting(outfile, target),
                       added |-> @.added + Len(filtered),
                       base |-> @.base,
                       empties |-> IF batch = <<>> THEN @.empties + 1 ELSE 0,
                       unsaved |-> @.unsaved]]
        /\ last_gen' = IF batch # <<>>
                       THEN [source |-> target, batch |-> batch,
                             novel |-> NovelFlags(batch, existing),
                             flen |-> Len(outfile), room |-> Len(batch), saved |-> TRUE]
                       ELSE NoGen
    /\ UNCHANGED <<script, input, max_qa_per_url, max_concurrent, qpc, entries, qa_runs>>
    /\ UNCHANGED <<file_lock, crawl_vars, gen_vars>>

\* Runner.run raises (line 93, outside any try block): the exception leaves
\* collect_qa in the middle of the while loop
WebRaised(i) ==
    /\ script = "web"
    /\ qpc = "running"
    /\ i = 1
    /\ task[i].pc = "gen"
    /\ task' = [task EXCEPT ![i].pc = "failed"]
    /\ last_gen' = NoGen
    /\ UNCHANGED <<script, input, max_qa_per_url, max_concurrent, qpc, outfile, ledger, entries, qa_runs,
                   written_for>>
    /\ UNCHANGED <<file_lock, crawl_vars, gen_vars>>

\* collect_qa returns, or the exception leaves asyncio.run
WebRunEnd ==
    /\ script = "web"
    /\ qpc = "running"
    /\ \A i \in 1..Len(task) : task[i].pc \in {"done", "failed"}
    /\ ProcessExit

-----------------------------------------------------------------------------
(* src/WebSearch.py, collect_qa: one generator call for a domain, whose      *)
(* pairs (question and answer only) are written to the output file.         *)

SearchDomain == "s"

\* result.final_output: a list of pairs without source_url
SiteBatches ==
    {<<>>} \cup {<<t>> : t \in PAIRS} \cup {<<t1, t2>> : t1 \in PAIRS, t2 \in PAIRS}

\* the line writer.write(qa.model_dump()) makes of a pair: it has no
\* source_url key, reading the key from it gives None
SiteLine(t) == QAPair(t, None)

\* collect_qa is called for the domain, up to the awaited Runner.run, line 39
SiteRunStart ==
    /\ script = "site"
    /\ qpc = "idle"
    /\ qa_runs < MaxQARuns
    /\ input' = <<SearchDomain>>
    /\ entries' = <<SearchDomain>>
    /\ task' = <<[NewTask EXCEPT !.pc = "gen", !.base = Len(outfile)]>>
    /\ qpc' = "running"
    /\ qa_runs' = qa_runs + 1
    /\ UNCHANGED <<script, max_qa_per_url, max_concurrent, outfile, ledger, written_for,
                   last_gen>>
    /\ UNCHANGED <<file_lock, crawl_vars, gen_vars>>

\* Runner.run returns batch; lines 40-42: the output file is opened in mode
\* "w" and the pairs are written to it
SiteCollected(batch) ==
    /\ script = "site"
    /\ qpc = "running"
    /\ task[1].pc = "gen"
    /\ outfile' = [k \in 1..Len(batch) |-> SiteLine(batch[k])]
    /\ written_for' = [k \in 1..Len(batch) |-> None]
    /\ task' = [task EXCEPT ![1].pc = "done", ![1].attempt = 1, ![1].added = Len(batch)]
    /\ UNCHANGED <<script, input, max_qa_per_url, max_concurrent, qpc, ledger, entries,
                   qa_runs, last_gen>>
    /\ UNCHANGED <<file_lock, crawl_vars, gen_vars>>

\* Runner.run raises: the exception leaves collect_qa before the file is opened
SiteRaised ==
    /\ script = "site"
    /\ qpc = "running"
    /\ task[1].pc = "gen"
    /\ task' = [task EXCEPT ![1].pc = "failed"]
    /\ UNCHANGED <<script, input, max_qa_per_url, max_concurrent, qpc, outfile, ledger,
                   entries, qa_runs, written_for, last_gen>>
    /\ UNCHANGED <<file_lock, crawl_vars, gen_vars>>

\* collect_qa returns, or the exception leaves asyncio.run
SiteRunEnd ==
    /\ script = "site"
    /\ qpc = "running"
    /\ task[1].pc \in {"done", "failed"}
    /\ ProcessExit

NextQA ==
    \/ \E es \in ENTRY_LISTS, n \in 1..MaxConcurrent : AltRunStart(es, n)
    \/ \E i \in DOMAIN task : AltAcquire(i)
    \/ \E i \in DOMAIN task : \E out \in GenOutcomes(entries[i]), ok \in BOOLEAN :
            AltGenerated(i, out, ok)
    \/ \E i \in DOMAIN task : AltSlept(i)
    \/ AltRunEnd
    \/ AltAborted
    \/ \E arg \in SEQ_ARGS : SeqRunStart(arg[1], arg[2])
    \/ \E i \in DOMAIN task : SeqBegin(i)
    \/ \E i \in DOMAIN task : \E batch \in Batches(entries[i]) : SeqGenerated(i, batch)
    \/ \E i \in DOMAIN task : SeqOpenFailed(i)
    \/ SeqRunEnd
    \/ \E target \in SOURCES : WebRunStart(target)
    \/ \E i \in DOMAIN task : \E batch \in Batches(entries[i]) : WebAttempt(i, batch)
    \/ \E i \in DOMAIN task : WebRaised(i)
    \/ WebRunEnd
    \/ SiteRunStart
    \/ \E batch \in SiteBatches : SiteCollected(batch)
    \/ SiteRaised
    \/ SiteRunEnd
    \/ Kill

\* the steps of the scripts themselves: the process is not killed and the
\* output file can be opened by the script that does not catch the failure
NextQAUnkilled ==
    \/ \E es \in ENTRY_LISTS, n \in 1..MaxConcurrent : AltRunStart(es, n)
    \/ \E i \in DOMAIN task : AltAcquire(i)
    \/ \E i \in DOMAIN task : \E out \in GenOutcomes(entries[i]), ok \in BOOLEAN :
            AltGenerated(i, out, ok)
    \/ \E i \in DOMAIN task : AltSlept(i)
    \/ AltRunEnd
    \/ AltAborted
    \/ \E arg \in SEQ_ARGS : SeqRunStart(arg[1], arg[2])
    \/ \E i \in DOMAIN task : SeqBegin(i)
    \/ \E i \in DOMAIN task : \E batch \in Batches(entries[i]) : SeqGenerated(i, batch)
    \/ SeqRunEnd
    \/ \E target \in SOURCES : WebRunStart(target)
    \/ \E i \in DOMAIN task : \E batch \in Batches(entries[i]) : WebAttempt(i, batch)
    \/ \E i \in DOMAIN task : WebRaised(i)
    \/ WebRunEnd
    \/ SiteRunStart
    \/ \E batch \in SiteBatches : SiteCollected(batch)
    \/ SiteRaised
    \/ SiteRunEnd

-----------------------------------------------------------------------------
(* Create_QA_from_jsonl_alt_fixed.py: the generation of one complete pair,   *)
(* generate_complete_qa_with_evaluation (basic pair, evaluation, improvement *)
(* cycle, three annotations) and generate_complete_qa_without_evaluation     *)
(* (basic pair, three annotations).  Every agent call is awaited; an action  *)
(* is the code from the return of one awaited call to the next await.        *)

\* the largest --max_improvement_iterations a call is given
MaxImprovementIterations == 2

\* the score beyond which the improvement cycle stops, line 634, and below
\* which the evaluator is told to ask for improvement, line 457
AcceptanceThreshold == 80

\* evaluation_score = None
NoScore == -1

\* source_identifier of the call
GenSource == "https://s/1"

\* overall_score, overall_rating and improvement_priority as the evaluator may
\* return them: QAEvaluation constrains their types only
SCORES == {45, 79, 80}
RATINGS == {"good", "poor"}
PRIORITIES == {"high", "medium", "low"}

\* evaluation = None
NoEvaluation ==
    [kind |-> "none", overall_score |-> NoScore, overall_rating |-> "",
     needs_improvement |-> FALSE, improvement_priority |-> ""]

\* the QAEvaluation objects the evaluator may return
EVALUATIONS ==
    {[kind |-> "value", overall_score |-> sc, overall_rating |-> r,
      needs_improvement |-> n, improvement_priority |-> p] :
        sc \in SCORES, r \in RATINGS, n \in BOOLEAN, p \in PRIORITIES}

\* what the evaluator call can end in: an evaluation, an empty final_output,
\* an exception
EvalOutcomes ==
    EVALUATIONS \cup {NoEvaluation, [NoEvaluation EXCEPT !.kind = "raise"]}

\* evaluate_qa_quality, lines 466-471: the evaluation, or None when the call
\* raised or returned nothing
evaluate_qa_quality(out) == IF out.kind = "value" THEN out ELSE NoEvaluation

\* generate_basic_qa, lines 230-244, and improve_qa_based_on_feedback, lines
\* 530-544: the pair with its source_url set to the requested identifier, or
\* None when the call raised or returned nothing
generate_basic_qa(out, sid) == IF out.kind = "pair" THEN CorrectSource(out.qa, sid) ELSE NoQA
improve_qa_based_on_feedback(out, sid) ==
    IF out.kind = "pair" THEN CorrectSource(out.qa, sid) ELSE NoQA

\* the evaluator followed rules 8 and 9 of its instructions, lines 457-458
FollowsRubric(ev) ==
    /\ ev.needs_improvement = (ev.overall_score < AcceptanceThreshold)
    /\ ev.improvement_priority =
          IF ev.overall_score < 50 THEN "high"
          ELSE IF ev.overall_score < AcceptanceThreshold THEN "medium" ELSE "low"

\* the test of line 598
ImprovementWanted(ev) ==
    ev.needs_improvement /\ ev.improvement_priority \in {"high", "medium"}

\* a comparison that also accepts an equal score
ImprovesOrEquals(new, cur) == new >= cur

\* re_evaluation.overall_score > evaluation.overall_score, line 625
StrictlyImproves(new, cur) == new > cur

\* a score that is taken from every re-evaluation there is
LatestScore(better, new, cur) == IF new # NoScore THEN new ELSE cur

\* evaluation_score = re_evaluation.overall_score under the test of line 625,
\* line 629
AcceptedScore(better, new, cur) == IF better THEN new ELSE cur

\* a cycle that goes on whatever the iteration
MoreIterationsAlways(it, mx) == TRUE

\* range(max_improvement_iterations) has a further iteration, line 601
MoreIterations(it, mx) == it + 1 < mx

\* the defaults of lines 660, 667 and 674
DefaultPersona == "general information seeker"
DefaultCategory == "other"
DefaultKeywords == <<"insurance", "information">>

\* no result object: the annotation call raised (caught at lines 289, 337,
\* 384) or its final_output was empty
NoResult == [kind |-> "none", value |-> <<>>]

\* what an annotation call can end in: a result object, whose field may be
\* empty, an empty final_output, an exception
PersonaOutcomes ==
    {[kind |-> "value", value |-> <<v>>] : v \in {"beginner", ""}}
        \cup {NoResult, [NoResult EXCEPT !.kind = "raise"]}
CategoryOutcomes ==
    {[kind |-> "value", value |-> <<v>>] : v \in {"claims", ""}}
        \cup {NoResult, [NoResult EXCEPT !.kind = "raise"]}
KeywordsOutcomes ==
    {[kind |-> "value", value |-> v] : v \in {<<"cancer", "benefit">>, <<>>}}
        \cup {NoResult, [NoResult EXCEPT !.kind = "raise"]}

\* generate_persona, generate_category, generate_keywords, lines 286-291,
\* 334-339, 381-386
generate_annotation(out) == IF out.kind = "value" THEN out ELSE NoResult

\* an annotation that is taken from the result whatever it is
AnnotationUnchecked(result, default, single) ==
    IF single THEN (IF result.value = <<>> THEN "" ELSE result.value[1]) ELSE result.value

\* lines 660-679: the field of the result object if there is one, else the
\* default; single: the field is a string, not a list
Annotation(result, default, single) ==
    IF result.kind = "value"
    THEN (IF single THEN result.value[1] ELSE result.value)
    ELSE default

\* the function returns None
NoComplete ==
    [kind |-> "none", question |-> "", answer |-> "", source_url |-> "",
     questioner_persona |-> "", information_category |-> "", related_keywords |-> <<>>,
     evaluation_score |-> NoScore, evaluation_rating |-> "", improvement_iterations |-> 0]

\* the QAPair built at lines 682-692 and 758-768
CompleteQAPair(qa, p, c, k, score, rating, iters) ==
    [kind |-> "pair", question |-> qa.question, answer |-> qa.answer,
     source_url |-> qa.source_url,
     questioner_persona |-> Annotation(p, DefaultPersona, TRUE),
     information_category |-> Annotation(c, DefaultCategory, TRUE),
     related_keywords |-> Annotation(k, DefaultKeywords, FALSE),
     evaluation_score |-> score, evaluation_rating |-> rating,
     improvement_iterations |-> iters]

\* no call is in progress
CompleteIdle ==
    /\ gpc = "idle"
    /\ enable_evaluation = FALSE
    /\ max_improvement_iterations = 0
    /\ basic_qa = NoQA
    /\ evaluation = NoEvaluation
    /\ current_qa = NoQA
    /\ evaluation_score = NoScore
    /\ evaluation_rating = ""
    /\ improvement_iterations = 0
    /\ iteration = 0
    /\ improved_qa = NoQA
    /\ re_evaluation = NoEvaluation
    /\ persona_result = NoResult
    /\ category_result = NoResult
    /\ keywords_result = NoResult
    /\ complete_qa = NoComplete
    /\ initial_score = NoScore

\* process_single_entry calls one of the two functions, lines 848-866, which
\* awaits generate_basic_qa
CompleteStart(ee, mi) ==
    /\ gpc = "idle"
    /\ gpc' = "basic"
    /\ enable_evaluation' = ee
    /\ max_improvement_iterations' = mi
    /\ UNCHANGED <<basic_qa, evaluation, current_qa, evaluation_score, evaluation_rating,
                   improvement_iterations, iteration, improved_qa, re_evaluation,
                   persona_result, category_result, keywords_result, complete_qa,
                   initial_score>>
    /\ UNCHANGED <<crawl_vars, qa_vars>>

\* generate_basic_qa returns, lines 559-580 and 708-731: None is returned when
\* there is no basic pair, else the evaluator or the annotations are awaited
BasicGenerated(out) ==
    /\ gpc = "basic"
    /\ basic_qa' = generate_basic_qa(out, GenSource)
    /\ gpc' = IF basic_qa' = NoQA THEN "returned"
              ELSE IF enable_evaluation THEN "evaluate" ELSE "enrich"
    /\ UNCHANGED <<enable_evaluation, max_improvement_iterations, evaluation, current_qa,
                   evaluation_score, evaluation_rating, improvement_iterations, iteration,
                   improved_qa, re_evaluation, persona_result, category_result,
                   keywords_result, complete_qa, initial_score>>
    /\ UNCHANGED <<crawl_vars, qa_vars>>

\* the first evaluate_qa_quality returns, lines 582-610 and 645-657
Evaluated(out) ==
    /\ gpc = "evaluate"
    /\ LET ev == evaluate_qa_quality(out)
       IN
        /\ evaluation' = ev
        /\ current_qa' = basic_qa
        /\ evaluation_score' = ev.overall_score
        /\ evaluation_rating' = ev.overall_rating
        /\ improvement_iterations' = 0
        /\ initial_score' = ev.overall_score
        /\ gpc' = IF ev # NoEvaluation /\ ImprovementWanted(ev)
                     /\ 0 < max_improvement_iterations
                  THEN "improve" ELSE "enrich"
    /\ iteration' = 0
    /\ UNCHANGED <<enable_evaluation, max_improvement_iterations, basic_qa, improved_qa,
                   re_evaluation, persona_result, category_result, keywords_result,
                   complete_qa>>
    /\ UNCHANGED <<crawl_vars, qa_vars>>

\* improve_qa_based_on_feedback returns, lines 604-623 and 640-642
Improved(out) ==
    /\ gpc = "improve"
    /\ improved_qa' = improve_qa_based_on_feedback(out, GenSource)
    /\ gpc' = IF improved_qa' # NoQA THEN "reevaluate" ELSE "enrich"
    /\ UNCHANGED <<enable_evaluation, max_improvement_iterations, basic_qa, evaluation,
                   current_qa, evaluation_score, evaluation_rating, improvement_iterations,
                   iteration, re_evaluation, persona_result, category_result,
                   keywords_result, complete_qa, initial_score>>
    /\ UNCHANGED <<crawl_vars, qa_vars>>

\* the evaluate_qa_quality of the improved pair returns, lines 625-644
ReEvaluated(out) ==
    /\ gpc = "reevaluate"
    /\ LET re == evaluate_qa_quality(out)
           better == re # NoEvaluation
                       /\ StrictlyImproves(re.overall_score, evaluation.overall_score)
       IN
        /\ re_evaluation' = re
        /\ current_qa' = IF better THEN improved_qa ELSE current_qa
        /\ evaluation' = IF better THEN re ELSE evaluation
        /\ evaluation_score' = AcceptedScore(better, re.overall_score, evaluation_score)
        /\ evaluation_rating' = IF better THEN re.overall_rating ELSE evaluation_rating
        /\ improvement_iterations' = IF better THEN iteration + 1 ELSE improvement_iterations
        /\ gpc' = IF better /\ ~(re.overall_score >= AcceptanceThreshold)
                  THEN "sleep" ELSE "enrich"
    /\ UNCHANGED <<enable_evaluation, max_improvement_iterations, basic_qa, iteration,
                   improved_qa, persona_result, category_result, keywords_result,
                   complete_qa, initial_score>>
    /\ UNCHANGED <<crawl_vars, qa_vars>>

\* the sleep of line 644 ends: the next iteration of range(max_improvement_iterations)
\* calls the improver, or the cycle is over
ImprovementSlept ==
    /\ gpc = "sleep"
    /\ IF MoreIterations(iteration, max_improvement_iterations)
       THEN iteration' = iteration + 1 /\ gpc' = "improve"
       ELSE iteration' = iteration /\ gpc' = "enrich"
    /\ UNCHANGED <<enable_evaluation, max_improvement_iterations, basic_qa, evaluation,
                   current_qa, evaluation_score, evaluation_rating, improvement_iterations,
                   improved_qa, re_evaluation, persona_result, category_result,
                   keywords_result, complete_qa, initial_score>>
    /\ UNCHANGED <<crawl_vars, qa_vars>>

\* asyncio.gather of the three annotation calls returns, lines 655-694 and
\* 731-770: the complete pair is built and returned
Enriched(p, c, k) ==
    /\ gpc = "enrich"
    /\ persona_result' = generate_annotation(p)
    /\ category_result' = generate_annotation(c)
    /\ keywords_result' = generate_annotation(k)
    /\ complete_qa' =
          IF enable_evaluation
          THEN CompleteQAPair(current_qa, persona_result', category_result',
                              keywords_result', evaluation_score, evaluation_rating,
                              improvement_iterations)
          ELSE CompleteQAPair(basic_qa, persona_result', category_result',
                              keywords_result', NoScore, "", 0)
    /\ gpc' = "returned"
    /\ UNCHANGED <<enable_evaluation, max_improvement_iterations, basic_qa, evaluation,
                   current_qa, evaluation_score, evaluation_rating, improvement_iterations,
                   iteration, improved_qa, re_evaluation, initial_score>>
    /\ UNCHANGED <<crawl_vars, qa_vars>>

\* the caller has taken the returned value; the locals are gone
CompleteReturned ==
    /\ gpc = "returned"
    /\ gpc' = "idle"
    /\ enable_evaluation' = FALSE
    /\ max_improvement_iterations' = 0
    /\ basic_qa' = NoQA
    /\ evaluation' = NoEvaluation
    /\ current_qa' = NoQA
    /\ evaluation_score' = NoScore
    /\ evaluation_rating' = ""
    /\ improvement_iterations' = 0
    /\ iteration' = 0
    /\ improved_qa' = NoQA
    /\ re_evaluation' = NoEvaluation
    /\ persona_result' = NoResult
    /\ category_result' = NoResult
    /\ keywords_result' = NoResult
    /\ complete_qa' = NoComplete
    /\ initial_score' = NoScore
    /\ UNCHANGED <<crawl_vars, qa_vars>>

NextComplete ==
    \/ \E ee \in BOOLEAN, mi \in 0..MaxImprovementIterations : CompleteStart(ee, mi)
    \/ \E out \in GenOutcomes(GenSource) : BasicGenerated(out)
    \/ \E out \in EvalOutcomes : Evaluated(out)
    \/ \E out \in GenOutcomes(GenSource) : Improved(out)
    \/ \E out \in EvalOutcomes : ReEvaluated(out)
    \/ ImprovementSlept
    \/ \E p \in PersonaOutcomes, c \in CategoryOutcomes, k \in KeywordsOutcomes :
            Enriched(p, c, k)
    \/ CompleteReturned

-----------------------------------------------------------------------------
(* Specifications *)

\* the crawlers, with no accumulation script running
InitOfCrawl == InitCrawl /\ QAStart("alt") /\ CompleteIdle

SpecCrawl == InitOfCrawl /\ [][NextCrawl]_vars

\* the steps the function takes by itself while its loop runs
LoopStep ==
    \/ Dequeue
    \/ \E kind \in FetchKinds : FetchFail(kind)
    \/ \E kind \in FetchKinds, ct \in ContentTypes : FetchOK(kind, ct)
    \/ SaveState
    \/ LoopExit

\* the crawlers when every sleep ends and every request returns or raises
\* (requests.get has timeout=20, the WebDriverWait calls have 10 and 5 seconds)
SpecCrawlFair == InitOfCrawl /\ [][NextCrawl]_vars /\ WF_vars(LoopStep)

\* the accumulation scripts, with no crawler running
InitOfQA == CrawlStart("http") /\ InitQA /\ CompleteIdle

SpecQA == InitOfQA /\ [][NextQA]_vars

\* the scripts left to run: the event loop goes on scheduling the tasks, every
\* awaited call and every sleep returns or raises
SpecQAFair == InitOfQA /\ [][NextQAUnkilled]_vars /\ WF_vars(NextQAUnkilled)

\* the generation of complete pairs, with no crawler and no accumulation run
InitOfComplete == CrawlStart("http") /\ QAStart("alt") /\ CompleteIdle

SpecComplete == InitOfComplete /\ [][NextComplete]_vars

\* every awaited agent call and every sleep returns
SpecCompleteFair == InitOfComplete /\ [][NextComplete]_vars /\ WF_vars(NextComplete)

-----------------------------------------------------------------------------
(* Properties of the crawlers *)

Max(a, b) == IF a >= b THEN a ELSE b

\* the loop of the current invocation has been entered
LoopEntered == outcome \in {"running", "exhausted", "budget", "interrupted"}

\* the current invocation took its queue, seen and results from the state file
Resumed == runs >= 2 /\ LoopEntered /\ restored > 0

\* C2: in every reachable state of a crawl run, fresh or restored from a
\* checkpoint, every url that appears in results is a member of seen.
C2_SeenSuperset == ResultUrls(results) \subseteq seen

\* a resumed run that has appended a record of its own
C2_Witness == Resumed /\ pc = "loop" /\ Len(results) > restored

\* C3: results never holds two entries with the same url, so no completed
\* crawl, resumed or not, ends with a duplicate url.
C3_NoDuplicateUrls ==
    \A i, j \in 1..Len(results) : results[i].url = results[j].url => i = j

\* a resumed crawl that ran to completion and added records to the restored ones
C3_Witness ==
    /\ Resumed /\ pc = "idle" /\ outcome \in {"exhausted", "budget"}
    /\ Len(results) > restored

\* C4: len(results) <= max_urls in every reachable state of a run, also one
\* that restores results from a checkpoint.
C4_BudgetRespect == LoopEntered => Len(results) <= max_urls

\* what the loop condition alone gives: results never grows beyond the larger
\* of max_urls and the number of results restored from the checkpoint
BudgetOrRestored == LoopEntered => Len(results) <= Max(max_urls, restored)

\* C5: for every record in results the host of its url equals the session's
\* domain, also when queue and results were restored from a checkpoint and a
\* start URL is supplied.
C5_DomainContainment ==
    (LoopEntered /\ start_url # None) =>
        \A i \in 1..Len(results) : netloc(results[i].url) = domain

\* C6: re-running a completed crawl from its checkpoint with the same max_urls
\* fetches nothing, leaves queue, seen and results as the checkpoint has them,
\* and ends with the queue empty or the budget reached.
C6_IdempotentResume ==
    rerun =>
        /\ fetches = <<>>
        /\ state_file = <<Snapshot(queue, seen, results)>>
        /\ (pc = "idle" => (queue = <<>> \/ Len(results) >= max_urls))

\* C7: whenever the loop has ended (exhausted, budget reached, interrupted) the
\* state file holds the in-memory queue, seen and results of that moment.
C7_PersistOnEveryExit ==
    (pc = "idle" /\ outcome \in {"exhausted", "budget", "interrupted"}) =>
        state_file = <<Snapshot(queue, seen, results)>>

\* the same two statements for the crawlers whose finally block saves the state
ResumeIdempotentWhereSaved == variant # "resp" => C6_IdempotentResume
PersistOnExitWhereSaved == variant # "resp" => C7_PersistOnEveryExit

-----------------------------------------------------------------------------
(* Properties of the accumulation scripts *)

\* the lines appended by the last generator step
Appended ==
    IF last_gen.batch = <<>> THEN {} ELSE {i \in 1..Len(outfile) : i > last_gen.flen}

\* positions of the last returned batch whose source_url is not the requested one
Mismatched ==
    {k \in 1..Len(last_gen.batch) : last_gen.batch[k].source_url # last_gen.source}

\* C1: across runs that share one output file, no two lines of the file have
\* the same (question, answer) tuple.  Stated for the scripts that keep a
\* ledger of the tuples written (src/WebSearch.py keeps none).
C1_NoDuplicatePairs ==
    script # "site" =>
        \A i, j \in 1..Len(outfile) :
            QATuple(outfile[i]) = QATuple(outfile[j]) => i = j

\* the same statement for the scripts that seed the ledger with every line
NoDuplicatePairsWhereSeededFully == script # "seq" => C1_NoDuplicatePairs

\* C8: every line written while source identifier s was processed has
\* source_url = s, whatever source_url the generator returned.
C8_SourceUrlPersisted ==
    \A i \in 1..Len(outfile) : outfile[i].source_url = written_for[i]

\* the generator returned a pair with another source_url and a line was
\* written for it
C8_Witness ==
    \E k \in Mismatched : \E i \in Appended :
        QATuple(outfile[i]) = QATuple(last_gen.batch[k])

FilteredWitness ==
    script = "web" /\ Mismatched # {} /\ Appended # {}

\* C10: while entries are processed concurrently, the set of tuples in the
\* ledger equals the set of tuples of the lines of the output file.
C10_LedgerEqualsFile ==
    (script = "alt" /\ qpc = "running") => ledger = FileTuples(outfile)

-----------------------------------------------------------------------------
(* Properties of the crawl loop and of its start *)

\* the fetch attempt that a step has just logged, if any
JustFetched == Len(fetches') = Len(fetches) + 1

\* whether fetch attempt f ended in an exception
Failed(f) == Raises(variant, f.url, f.kind)

\* C11: every dequeued URL is in seen before its fetch is attempted, whether
\* the fetch then succeeds or fails, so no URL is handed to the fetcher twice
\* within a run.
C11_SeenBeforeFetch ==
    /\ pc = "fetch" => url \in seen
    /\ \A i \in 1..Len(fetches) : fetches[i].url \in seen
    /\ \A i, j \in 1..Len(fetches) : fetches[i].url = fetches[j].url => i = j

\* a fetch failed and a page fetched later links back to the failed URL
C11_Witness ==
    \E i, j \in 1..Len(fetches) :
        /\ i < j /\ Failed(fetches[i]) /\ ~Failed(fetches[j])
        /\ InSeq(fetches[i].url, Hrefs(fetches[j].url))

\* C12: when a fetch fails at transport level (timeout, connection error,
\* non-2xx status) the URL stays in seen, no record is appended, no link is
\* enqueued and the loop continues with the next queue entry.
C12_FetchFailureSkipsUrl ==
    [][(JustFetched /\ fetches'[Len(fetches')].kind # "ok") =>
            /\ fetches'[Len(fetches')].url \in seen'
            /\ results' = results
            /\ queue' = queue
            /\ pc' = "loop"]_vars

\* the same statement for the crawlers that fetch with requests
FetchFailureSkipsUrlWithRequests ==
    [][(variant # "selenium" /\ JustFetched /\ fetches'[Len(fetches')].kind # "ok") =>
            /\ fetches'[Len(fetches')].url \in seen'
            /\ results' = results
            /\ queue' = queue
            /\ pc' = "loop"]_vars

\* the place of x in s (x occurs in s)
IndexIn(x, s) == CHOOSE i \in 1..Len(s) : s[i] = x /\ \A j \in 1..(i - 1) : s[j] # x

\* C13: URLs are visited in FIFO discovery order: the urls of results appear
\* in the order in which they were first enqueued; an off-domain link of the
\* seed never appears in queue or results.
C13_DiscoveryOrder ==
    /\ \A i \in 1..Len(results) : InSeq(results[i].url, discovered)
    /\ \A i, j \in 1..Len(results) :
        i < j => IndexIn(results[i].url, discovered) < IndexIn(results[j].url, discovered)
    /\ (runs = 1 /\ start_url = RootA) =>
        ~InSeq(RootB, queue) /\ RootB \notin ResultUrls(results)

\* a first crawl of the seed with links /a, off-domain, /b has fetched all three
\* pages of the domain
C13_Witness ==
    /\ runs = 1 /\ start_url = RootA /\ pc = "idle"
    /\ [i \in 1..Len(results) |-> results[i].url] = <<RootA, PageA1, PageA2>>

\* the state file holds a checkpoint that can be resumed: readable, queue not empty
Usable(file) == Restores(file) /\ file[1].queue # <<>>

\* a step that is the start of an invocation
Invoked == runs' = runs + 1

\* C18: when neither a start URL nor a usable checkpoint is available, or no
\* non-empty domain can be derived, the crawl fails before the loop starts: no
\* fetch, no results, nothing written to the state file.
C18_ConfigErrorBeforeLoop ==
    [][(Invoked /\ ((Falsy(start_url') /\ ~Usable(state_file)) \/ Falsy(domain'))) =>
            /\ pc' = "idle"
            /\ outcome' = "failed"
            /\ fetches' = <<>>
            /\ state_file' = state_file]_vars

\* the same statement for the crawlers that derive the domain from the checkpoint
ConfigErrorBeforeLoopWhereDerived ==
    [][(variant # "resp" /\ Invoked
            /\ ((Falsy(start_url') /\ ~Usable(state_file)) \/ Falsy(domain'))) =>
            /\ pc' = "idle"
            /\ outcome' = "failed"
            /\ fetches' = <<>>
            /\ state_file' = state_file]_vars

\* C19: when the state file exists but cannot be parsed, the crawl starts
\* fresh from the start URL if one is supplied (queue = [start URL], seen and
\* results empty); without a start URL it fails without fetching anything.
C19_MalformedCheckpoint ==
    [][(Invoked /\ state_file = <<Corrupt>>) =>
            IF Falsy(start_url')
            THEN pc' = "idle" /\ outcome' = "failed"
            ELSE /\ queue' = <<start_url'>> /\ seen' = {} /\ results' = <<>>
                 /\ ~Falsy(netloc(start_url')) => pc' = "loop"]_vars

\* the same statement for the crawlers that test the start URL in the except branch
MalformedCheckpointWhereTested ==
    [][(variant # "resp" /\ Invoked /\ state_file = <<Corrupt>>) =>
            IF Falsy(start_url')
            THEN pc' = "idle" /\ outcome' = "failed"
            ELSE /\ queue' = <<start_url'>> /\ seen' = {} /\ results' = <<>>
                 /\ ~Falsy(netloc(start_url')) => pc' = "loop"]_vars

\* the step has fetched a page without an exception
PageFetched == JustFetched /\ ~Failed(fetches'[Len(fetches')])

\* C30: links are offered to the queue only from a fetched page whose
\* content type begins with text/html; a page of another content type is
\* recorded in results and adds no URL to the queue.
C30_LinksFromHtmlOnly ==
    [][(PageFetched /\ ~IsHtml(fetches'[Len(fetches')].ct)) =>
            /\ queue' = queue
            /\ fetches'[Len(fetches')].url \in ResultUrls(results')]_vars

\* the same statement for the crawlers that fetch with requests
LinksFromHtmlOnlyWithRequests ==
    [][(variant # "selenium" /\ PageFetched /\ ~IsHtml(fetches'[Len(fetches')].ct)) =>
            /\ queue' = queue
            /\ fetches'[Len(fetches')].url \in ResultUrls(results')]_vars

\* a requests crawler has recorded a page that is not HTML and whose links
\* are not all known: they would have entered the queue
NonHtmlRecorded ==
    /\ variant # "selenium"
    /\ \E i \in 1..Len(fetches) :
          /\ ~Failed(fetches[i]) /\ ~IsHtml(fetches[i].ct)
          /\ fetches[i].url \in ResultUrls(results)
          /\ \E k \in 1..Len(Hrefs(fetches[i].url)) :
                /\ LinkInDomain(Hrefs(fetches[i].url)[k], domain)
                /\ Hrefs(fetches[i].url)[k] \notin seen
                /\ ~InSeq(Hrefs(fetches[i].url)[k], queue)

\* the domain a checkpoint gives when no start URL does: the domain field of
\* the first restored result, otherwise the host of the first queued URL
DomainOfCheckpoint(file) ==
    IF file[1].results # <<>> /\ ~Falsy(file[1].results[1].domain)
    THEN file[1].results[1].domain
    ELSE IF file[1].queue # <<>> THEN netloc(file[1].queue[1]) ELSE None

\* what C29 asks of one step: a resume without start URL that enters the loop
\* has taken the domain from the checkpoint; the domain is non-empty when a
\* fetch of such a run begins; it does not change while the invocation runs
DomainDerivedAndFixed ==
    /\ (Invoked /\ start_url' = None /\ Restores(state_file) /\ pc' = "loop")
          => domain' = DomainOfCheckpoint(state_file) /\ ~Falsy(domain')
    /\ (start_url' = None /\ pc' = "fetch") => ~Falsy(domain')
    /\ pc # "idle" => domain' = domain

\* C29: when the crawl is resumed without a start URL the domain is taken
\* from the first restored result, otherwise from the first queued URL; it is
\* non-empty before the first fetch and stays fixed for the whole run.
C29_DomainDerivedOnResume == [][DomainDerivedAndFixed]_vars

\* the same statement for the crawlers that derive the domain from the checkpoint
DomainDerivedOnResumeWhereDerived == [][variant # "resp" => DomainDerivedAndFixed]_vars

\* a crawl resumed without start URL fetches under the domain of its checkpoint
ResumedUnderCheckpointDomain ==
    /\ variant # "resp"
    /\ Resumed /\ start_url = None /\ pc = "fetch"
    /\ domain = "a.com"

InterruptedUrlFetchedOnResume ==
    /\ variant = "resp"
    /\ Resumed
    /\ \E u \in dropped : \E i \in 1..Len(fetches) : fetches[i].url = u

\* the invocation has left its loop because the while condition was false
NormalExit == pc = "idle" /\ outcome \in {"exhausted", "budget"}

\* the step is a fetch with requests that failed, or the skip of a dequeued
\* URL that was already seen
FailedOrSkipped ==
    \/ variant # "selenium" /\ JustFetched /\ fetches'[Len(fetches')].kind # "ok"
    \/ pc = "loop" /\ pc' = "loop" /\ queue' # queue

\* C27: over a finite set of in-domain URLs the crawl loop always terminates;
\* when it exits normally len(results) >= max_urls or the queue is empty; a
\* failed fetch and a skipped URL leave results as they are, so they consume
\* no budget, and the loop goes on to its next test.  The part on failed
\* fetches is stated for the crawlers that fetch with requests.
C27_LoopTerminates ==
    /\ [](NormalExit => (Len(results) >= max_urls \/ queue = <<>>))
    /\ [][FailedOrSkipped => results' = results /\ pc' = "loop"]_vars
    /\ (pc # "idle") ~> (pc = "idle")

\* the budget was reached although more URLs were marked seen than the
\* budget allows: a fetch had failed on the way
C27_Witness ==
    /\ NormalExit /\ outcome = "budget" /\ runs = 1
    /\ Len(results) = max_urls
    /\ Cardinality(seen) > max_urls
    /\ \E i \in 1..Len(fetches) : fetches[i].kind # "ok"

-----------------------------------------------------------------------------
(* Properties of the attempt loops of the accumulation scripts.              *)

\* the cap on the pairs of one source: --max_q_per_entry of the concurrent
\* script, --max_qa_per_url of the sequential one
CapOf(sc) == IF sc = "alt" THEN MaxQPerEntry ELSE max_qa_per_url

\* the lines source i has appended to the file since its processing began
WrittenBy(i) ==
    {k \in 1..Len(outfile) : k > task[i].base /\ written_for[k] = entries[i]}

\* C14: for every source, the pairs appended during one processing of it
\* never exceed the cap, and no generator call is pending for a source whose
\* accepted count has reached the cap.  In the sequential script, where the
\* sources of a run are distinct, the appended pairs are counted in the file.
C14_CapPerSource ==
    script \in {"alt", "seq"} =>
        \A i \in 1..Len(task) :
            /\ task[i].added <= CapOf(script)
            /\ task[i].pc = "gen" => task[i].added < CapOf(script)
            /\ script = "seq" /\ task[i].pc # "waiting"
                  => Cardinality(WrittenBy(i)) <= CapOf(script)

\* a source has reached its cap while the generator had more to offer: the
\* batch processed last held more new pairs than there was room for
C14_Witness ==
    /\ script = "seq"
    /\ \E i \in 1..Len(task) :
          /\ task[i].pc = "done"
          /\ task[i].added = max_qa_per_url
          /\ last_gen.source = entries[i]
          /\ Cardinality({k \in 1..Len(last_gen.batch) : last_gen.novel[k]}) > last_gen.room

\* the attempt loop of source i ended although the cap was not reached and
\* attempts of the budget were left
EndedEarly(i) ==
    /\ task[i].pc = "done"
    /\ ~CapReached(task[i].added, max_qa_per_url)
    /\ task[i].attempt < MaxAttemptsPerCycle(max_qa_per_url)

\* C15: a source is given up early exactly on account of its consecutive
\* empty attempts: a loop that ended early has seen more consecutive empty
\* attempts than the threshold, and a loop that has seen more than the
\* threshold has ended.  task[i].empties counts the attempts since the last
\* non-empty generation.
C15_ConsecutiveEmptyAbort ==
    script = "seq" =>
        \A i \in 1..Len(task) :
            /\ EndedEarly(i) => task[i].empties > EmptyAbortIndex
            /\ task[i].empties > EmptyAbortIndex => task[i].pc = "done"

\* what the sequential script does instead: it gives a source up on an empty
\* attempt whose index in the loop is beyond the threshold, however many
\* empty attempts came before it
EarlyEndByAttemptIndex ==
    script = "seq" =>
        \A i \in 1..Len(task) :
            EndedEarly(i) => task[i].empties >= 1 /\ task[i].attempt > EmptyAbortIndex + 1

\* a source given up after a single empty attempt
EarlyEndAfterOneEmpty ==
    /\ script = "seq"
    /\ \E i \in 1..Len(task) : EndedEarly(i) /\ task[i].empties = 1

\* the step ends the loop of source j by an exception
Raising(j) ==
    /\ j \in DOMAIN task
    /\ DOMAIN task' = DOMAIN task
    /\ task[j].pc # "failed"
    /\ task'[j].pc = "failed"

\* a generator failure ends nothing but the call it happened in: the task is
\* the one that was waiting for the generator, the other sources are left as
\* they are, the run goes on
RaiseIsLocal ==
    \A j \in DOMAIN task :
        Raising(j) =>
            /\ task[j].pc = "gen"
            /\ \A k \in DOMAIN task \ {j} : task'[k] = task[k]
            /\ qpc' = "running"
            /\ entries' = entries

\* the sources of the run whose attempt loop has neither ended nor been left
\* by a failure of their own generator call
Pending == {j \in DOMAIN task : task[j].pc \notin {"done", "failed"}}

\* C17: a generator failure for one source never aborts the run: the step in
\* which it happens leaves every other source as it is and the run running,
\* and a run left alone goes on until the attempt loop of every source of
\* its input has come to its end.
C17_FailureDoesNotAbortRun ==
    /\ [][RaiseIsLocal]_vars
    /\ (qpc = "running") ~> (qpc = "running" /\ Pending = {})

\* one source has been ended by a generator failure in its first attempt and
\* another source of the same run has run all its attempts and appended a pair
C17_Witness ==
    /\ script = "alt"
    /\ qpc = "running"
    /\ \E i, j \in DOMAIN task :
          /\ task[i].pc = "failed"
          /\ task[i].attempt = 0
          /\ task[j].pc = "done"
          /\ task[j].attempt = MaxQPerEntry
          /\ task[j].added >= 1

\* the attempts a source is given: range(max_q_per_entry), max_attempts of
\* collect_qa, range(max_attempts_per_persona_cycle)
AttemptBudget(sc) ==
    IF sc = "alt" THEN MaxQPerEntry
    ELSE IF sc = "web" THEN MaxAttempts
    ELSE IF sc = "site" THEN 1
    ELSE MaxAttemptsPerCycle(max_qa_per_url)

\* C16: a generator call that throws counts as an attempt that returned
\* nothing: the attempts that remain for the source still run, so no source
\* is ever left by an exception while attempts of its budget remain.
C16_FailureIsEmptyAttempt ==
    \A i \in DOMAIN task :
        task[i].pc = "failed" => task[i].attempt + 1 >= AttemptBudget(script)

\* the part of it that holds: nothing is written in the step in which the
\* generator call throws
NothingWrittenOnRaise == [][(\E j \in DOMAIN task : Raising(j)) => outfile' = outfile]_vars

\* and in the sequential script, whose generate_qa_for_text catches what the
\* call raises and returns an empty list, no source is left by an exception
FailureIsEmptyAttemptWhereCaught ==
    script = "seq" => \A i \in DOMAIN task : task[i].pc # "failed"

-----------------------------------------------------------------------------
(* Properties of the reading of the input dataset.                           *)

\* C20: a malformed line of the input is skipped and the well-formed lines
\* are still processed: once the input has been read, every well-formed line
\* of it is a source of the run.
C20_MalformedLineSkipped ==
    qpc # "idle" =>
        \A k \in 1..Len(input) : input[k] # Malformed => InSeq(input[k], entries)

\* what the sequential script does, which decodes line by line
MalformedLineSkippedWhereDecodedByLine ==
    script = "seq" /\ qpc # "idle" =>
        \A k \in 1..Len(input) : input[k] # Malformed => InSeq(input[k], entries)

\* the sequential script processes the source that follows a malformed line
SkippedAndProcessed ==
    /\ script = "seq"
    /\ qpc = "running"
    /\ \E k \in 1..Len(input) : input[k] = Malformed
    /\ \E i \in DOMAIN task : task[i].pc = "done" /\ task[i].added >= 1

-----------------------------------------------------------------------------
(* Properties of the concurrency limiter and of the output file.             *)

\* C21: at every moment of a run of the concurrent script the sources whose
\* process_single_entry is in progress number at most max_concurrent_entries,
\* and every source read from the input is eventually processed: its task
\* comes to its end.
C21_ConcurrencyLimit ==
    /\ [](script = "alt" => Cardinality(Holding) <= max_concurrent)
    /\ (script = "alt" /\ qpc = "running") ~> (qpc = "running" /\ Pending = {})

\* with a limit of one, a source waited until the source before it was done
\* and is now being processed
C21_Witness ==
    /\ script = "alt" /\ qpc = "running"
    /\ max_concurrent = 1
    /\ Len(task) = 2
    /\ \E i, j \in DOMAIN task : task[i].pc = "done" /\ task[j].pc = "gen"

\* s is a prefix of t
IsPrefix(s, t) == Len(s) <= Len(t) /\ SubSeq(t, 1, Len(s)) = s

\* C22: writes to the output file are append-only: every step leaves the
\* lines already in the file unchanged and in place, so the file before the
\* step is a prefix of the file after it.
C22_AppendOnly == [][IsPrefix(outfile, outfile')]_vars

\* the same statement for the scripts that open the file in mode "a"
AppendOnlyWhereAppended == [][script # "site" => IsPrefix(outfile, outfile')]_vars

\* a later process has appended to the lines an earlier process had written
AppendedToEarlierLines ==
    /\ script # "site"
    /\ qa_runs = 2
    /\ \E i \in DOMAIN task : task[i].base >= 1 /\ Len(outfile) > task[i].base


-----------------------------------------------------------------------------
(* Properties of a failure to write to the output file.                      *)

\* the step is one in which source i had a new pair to write and the output
\* file could not be written
SaveFailedFor(i) ==
    /\ i \in DOMAIN task
    /\ DOMAIN task' = DOMAIN task
    /\ task[i].pc = "gen"
    /\ task'[i].unsaved = task[i].unsaved + 1

\* what a failed write leaves behind: nothing in the file, the pair neither
\* counted nor shown to the next generator call, the attempt loop of the
\* source still running, the other sources and the run as they were
SaveFailureContained(i) ==
    /\ outfile' = outfile
    /\ task'[i].added = task[i].added
    /\ task'[i].display = task[i].display
    /\ task'[i].pc \in {"sleep", "gen", "done"}
    /\ task'[i].pc = "done" => task'[i].attempt >= AttemptBudget(script)
    /\ \A k \in DOMAIN task \ {i} : task'[k] = task[k]
    /\ qpc' = "running"

\* C26: a failure to write to the output file does not crash the accumulation
\* loop: the pair is not counted and not added to the pairs accepted for the
\* source, the attempts that remain for the source still run, and no source
\* is ever left by the failure.
C26_WriteFailureDoesNotCrash ==
    /\ [][\A i \in DOMAIN task : SaveFailedFor(i) => SaveFailureContained(i)]_vars
    /\ [](\A i \in DOMAIN task : task[i].pc # "crashed")

\* the concurrent script, whose save_qa_to_file catches the failure and
\* returns False, contains it
WriteFailureContainedWhereCaught ==
    [][script = "alt" => \A i \in DOMAIN task : SaveFailedFor(i) => SaveFailureContained(i)]_vars

\* a source of the concurrent script that failed to write the pair of its
\* first attempt has written the pair of its second one
WroteAfterSaveFailure ==
    /\ script = "alt"
    /\ qpc = "running"
    /\ \E i \in DOMAIN task :
          /\ task[i].pc = "sleep"
          /\ task[i].attempt = 1
          /\ task[i].unsaved = 1
          /\ task[i].added = 1
          /\ last_gen.saved
          /\ Len(outfile) = last_gen.flen + 1
          /\ \A k \in DOMAIN task \ {i} : task[k].pc = "waiting"

\* the sequential script is left by the failure while attempts remain and
\* further URLs wait
CrashedByWriteFailure ==
    /\ script = "seq"
    /\ \E i, k \in DOMAIN task :
          /\ task[i].pc = "crashed"
          /\ task[i].attempt + 1 < AttemptBudget(script)
          /\ task[k].pc = "waiting"

-----------------------------------------------------------------------------
(* Properties of the generation of a complete pair.                          *)

\* the pair the annotations are made for
AnnotatedQA == IF enable_evaluation THEN current_qa ELSE basic_qa

\* C23: each of the three annotations falls back to its own default when its
\* call failed or returned nothing and is the call's own result otherwise,
\* whatever became of the other two calls; and a call that got a basic pair
\* returns a complete pair, with the question and answer it annotated.
C23_AnnotationsFallBackIndependently ==
    (gpc = "returned" /\ basic_qa # NoQA) =>
        /\ complete_qa.kind = "pair"
        /\ complete_qa.question = AnnotatedQA.question
        /\ complete_qa.answer = AnnotatedQA.answer
        /\ complete_qa.source_url = GenSource
        /\ complete_qa.questioner_persona =
              IF persona_result = NoResult THEN DefaultPersona ELSE persona_result.value[1]
        /\ complete_qa.information_category =
              IF category_result = NoResult THEN DefaultCategory ELSE category_result.value[1]
        /\ complete_qa.related_keywords =
              IF keywords_result = NoResult THEN DefaultKeywords ELSE keywords_result.value

\* a pair returned by the function with the evaluation cycle, with the
\* default persona, after the persona call failed, and with the category and
\* the keywords the other two calls returned
C23_Witness ==
    /\ gpc = "returned"
    /\ complete_qa.kind = "pair"
    /\ persona_result = NoResult
    /\ complete_qa.questioner_persona = DefaultPersona
    /\ complete_qa.information_category = "claims"
    /\ complete_qa.related_keywords = <<"cancer", "benefit">>
    /\ enable_evaluation

\* a result object whose field is empty is not a failed call: the empty
\* value is kept
EmptyAnnotationKept ==
    /\ gpc = "returned"
    /\ complete_qa.kind = "pair"
    /\ complete_qa.questioner_persona = ""
    /\ complete_qa.related_keywords = <<>>

\* the step changes the pair or the score the call will return
ChangesCurrent ==
    /\ gpc \in {"improve", "reevaluate", "sleep", "enrich"}
    /\ current_qa' # current_qa \/ evaluation_score' # evaluation_score

\* the re-evaluation the step receives is there and strictly better than the
\* current score
StrictlyBetter ==
    /\ re_evaluation' # NoEvaluation
    /\ re_evaluation'.overall_score > evaluation_score

\* C24: the current pair and score change only in the step that receives the
\* re-evaluation of an improved pair, and only to that pair and its score when
\* the score is strictly greater than the current one; an improvement whose
\* re-evaluation failed or is not strictly greater is dropped and ends the
\* cycle; the score returned is never lower than the score of the pair
\* generated first.
C24_ImprovementOnlyIfStrictlyBetter ==
    /\ [][ChangesCurrent =>
            /\ gpc = "reevaluate"
            /\ StrictlyBetter
            /\ current_qa' = improved_qa
            /\ evaluation_score' = re_evaluation'.overall_score]_vars
    /\ [][(gpc = "reevaluate" /\ gpc' # "reevaluate" /\ ~StrictlyBetter) =>
            /\ current_qa' = current_qa
            /\ evaluation_score' = evaluation_score
            /\ evaluation_rating' = evaluation_rating
            /\ improvement_iterations' = improvement_iterations
            /\ gpc' = "enrich"]_vars
    /\ [](complete_qa.kind = "pair" /\ initial_score # NoScore =>
            complete_qa.evaluation_score >= initial_score)

\* a pair returned after two accepted improvements, with a score above the
\* one of the pair generated first
C24_Witness ==
    /\ gpc = "returned"
    /\ complete_qa.kind = "pair"
    /\ complete_qa.improvement_iterations = 2
    /\ initial_score # NoScore
    /\ complete_qa.evaluation_score > initial_score
    /\ re_evaluation.overall_score = complete_qa.evaluation_score

\* an improved pair that was dropped: its re-evaluation gave the score the
\* current pair already had
EqualScoreDropped ==
    /\ gpc = "enrich"
    /\ improved_qa # NoQA
    /\ improved_qa # current_qa
    /\ re_evaluation # NoEvaluation
    /\ re_evaluation.overall_score = evaluation_score
    /\ improvement_iterations = 0

\* the step calls the improver
CallsImprover == gpc # "improve" /\ gpc' = "improve"

\* C25: the improver is called only for a pair whose evaluated overall score
\* is below the acceptance threshold and whose priority is medium or high.
C25_ImprovementOnlyBelowThreshold ==
    [][CallsImprover =>
        /\ evaluation'.overall_score < AcceptanceThreshold
        /\ evaluation'.improvement_priority \in {"medium", "high"}]_vars

\* what the code tests before the first call: the two fields the evaluator
\* returned, not the score
ImprovementOnlyWhenWanted ==
    [][(gpc = "evaluate" /\ gpc' = "improve") => ImprovementWanted(evaluation')]_vars

\* and before a further call: that the accepted score is below the threshold
FurtherImprovementBelowThreshold ==
    [][(gpc = "sleep" /\ gpc' = "improve") =>
            evaluation'.overall_score < AcceptanceThreshold]_vars

\* with evaluations that follow rules 8 and 9 of the evaluator's instructions
\* the improver is called below the threshold and at medium or high priority
ImprovementBelowThresholdWhereRubricFollowed ==
    [][(CallsImprover /\ FollowsRubric(evaluation')) =>
        /\ evaluation'.overall_score < AcceptanceThreshold
        /\ evaluation'.improvement_priority \in {"medium", "high"}]_vars

\* the improver called for a pair whose score is at the threshold
ImproverCalledAtThreshold ==
    /\ gpc = "improve"
    /\ iteration = 0
    /\ evaluation.overall_score >= AcceptanceThreshold

\* the improver called a second time for a pair whose priority is low
ImproverCalledAtLowPriority ==
    /\ gpc = "improve"
    /\ iteration = 1
    /\ evaluation.improvement_priority = "low"

\* the improvement cycle is running
InCycle == gpc \in {"improve", "reevaluate", "sleep"}

\* C34: the improver is called once per iteration of the cycle, for the
\* iterations 0 .. max_improvement_iterations - 1 in turn, so at most
\* max_improvement_iterations times for one pair; the cycle stops in the
\* step in which an accepted re-evaluation is at or above the threshold, in
\* the step in which the improver returns nothing and in the step in which
\* the re-evaluation is not strictly better; and a cycle that runs ends.
C34_ImproveLoopBounded ==
    /\ [][CallsImprover =>
            /\ iteration' < max_improvement_iterations
            /\ \/ gpc = "evaluate" /\ iteration' = 0
               \/ gpc = "sleep" /\ iteration' = iteration + 1]_vars
    /\ [][(gpc = "improve" /\ gpc' # "improve") =>
            (improved_qa' = NoQA <=> gpc' = "enrich")]_vars
    /\ [][(gpc = "reevaluate" /\ gpc' # "reevaluate") =>
            IF StrictlyBetter /\ re_evaluation'.overall_score < AcceptanceThreshold
            THEN gpc' = "sleep"
            ELSE gpc' = "enrich"]_vars
    /\ InCycle ~> (gpc = "enrich")

\* the cycle has run out of iterations: the only iteration allowed gave an
\* accepted improvement whose score is still below the threshold
C34_Witness ==
    /\ gpc = "enrich"
    /\ max_improvement_iterations = 1
    /\ iteration = 0
    /\ improvement_iterations = 1
    /\ evaluation_score < AcceptanceThreshold
    /\ evaluation_score > initial_score

\* the pair, its score, its rating and the iteration count the call will return
Verdict == <<current_qa, evaluation_score, evaluation_rating, improvement_iterations>>

\* C38: the pair that will be returned, its score, its rating and the count
\* of iterations are set together: by the first evaluation, to the basic pair
\* with the evaluator's output for it and the count 0; by an accepted
\* re-evaluation, to the improved pair with the evaluator's output for it and
\* the 1-based index of the iteration; by nothing else.  They are returned as
\* they stand, and the count is at most max_improvement_iterations.
C38_ScoreBelongsToReturnedPair ==
    /\ [][(gpc = "evaluate" /\ gpc' # "evaluate") =>
            Verdict' = <<basic_qa, evaluation'.overall_score, evaluation'.overall_rating, 0>>]_vars
    /\ [][(gpc = "reevaluate" /\ gpc' # "reevaluate") =>
            \/ Verdict' = <<improved_qa, re_evaluation'.overall_score,
                            re_evaluation'.overall_rating, iteration + 1>>
            \/ Verdict' = Verdict]_vars
    /\ [][(gpc \in {"improve", "sleep", "enrich"}) => Verdict' = Verdict]_vars
    /\ [](gpc = "returned" /\ enable_evaluation /\ complete_qa.kind = "pair" =>
            /\ <<complete_qa.question, complete_qa.answer>> = QATuple(current_qa)
            /\ complete_qa.evaluation_score = evaluation_score
            /\ complete_qa.evaluation_rating = evaluation_rating
            /\ complete_qa.improvement_iterations = improvement_iterations
            /\ improvement_iterations <= max_improvement_iterations
            /\ improvement_iterations = 0 => current_qa = basic_qa)

\* a pair returned after its first improvement was accepted and its second
\* one, re-evaluated no better, was dropped: it carries the score of the
\* first improvement and the count 1
C38_Witness ==
    /\ gpc = "returned"
    /\ complete_qa.kind = "pair"
    /\ iteration = 1
    /\ complete_qa.improvement_iterations = 1
    /\ re_evaluation # NoEvaluation
    /\ re_evaluation.overall_score <= complete_qa.evaluation_score
    /\ re_evaluation.overall_rating # complete_qa.evaluation_rating
    /\ QATuple(improved_qa) # <<complete_qa.question, complete_qa.answer>>

-----------------------------------------------------------------------------
(* Properties of the attempt loop of src/src/WebSearch.py.                   *)

\* the step is an attempt of collect_qa whose generator call returned
WebAttempted ==
    /\ script = "web"
    /\ qpc = "running"
    /\ qpc' = "running"
    /\ task[1].pc = "gen"
    /\ task'[1].attempt = task[1].attempt + 1

\* C37: collect_qa calls the generator at most max_attempts times; an
\* attempt that appended nothing, because the generator returned nothing or
\* only duplicates or only pairs of another source_url, is the last one; an
\* attempt that appended goes on to the next while attempts remain; and a
\* call of collect_qa comes to its end.
C37_CollectBounded ==
    /\ [](script = "web" =>
            \A i \in DOMAIN task :
                /\ task[i].attempt <= MaxAttempts
                /\ task[i].pc \in {"gen", "failed"} => task[i].attempt < MaxAttempts)
    /\ [][WebAttempted =>
            /\ outfile' = outfile => task'[1].pc = "done"
            /\ (outfile' # outfile /\ task'[1].attempt < MaxAttempts) => task'[1].pc = "gen"]_vars
    /\ (script = "web" /\ qpc = "running") ~> (qpc = "running" /\ Pending = {})

\* collect_qa has ended after its first attempt, with attempts left: the
\* generator returned a pair of another source_url and nothing was appended
C37_Witness ==
    /\ script = "web"
    /\ qpc = "running"
    /\ task[1].pc = "done"
    /\ task[1].attempt = 1
    /\ task[1].attempt < MaxAttempts
    /\ last_gen.batch # <<>>
    /\ last_gen.batch[1].source_url = WrongUrl
    /\ Len(outfile) = last_gen.flen

-----------------------------------------------------------------------------
(* Properties of the ledger of the concurrent script after a failed write.   *)

\* the tuples the ledger holds and no line of the file has
Unwritten == ledger \ FileTuples(outfile)

\* C36: in the concurrent script the tuple of a pair is in the ledger when
\* its write has failed, and stays there: a tuple that is in the ledger and
\* not in the file is not written by any later step of the run, whoever
\* generates it again.
C36_FailedWriteStaysInLedger ==
    /\ [][(script = "alt" /\ \E i \in DOMAIN task : SaveFailedFor(i)) =>
            /\ QATuple(last_gen'.batch[1]) \in ledger'
            /\ QATuple(last_gen'.batch[1]) \notin FileTuples(outfile')]_vars
    /\ [][(script = "alt" /\ qpc = "running" /\ qpc' = "running") =>
            /\ ledger \subseteq ledger'
            /\ Unwritten \cap FileTuples(outfile') = {}]_vars

\* a pair whose write had failed was generated again, by a task whose write
\* would have succeeded, and was rejected as a duplicate: it is in no line
C36_Witness ==
    /\ script = "alt"
    /\ qpc = "running"
    /\ \E i \in DOMAIN task : task[i].unsaved = 1
    /\ last_gen.batch # <<>>
    /\ ~last_gen.novel[1]
    /\ last_gen.saved
    /\ QATuple(last_gen.batch[1]) \in Unwritten

-----------------------------------------------------------------------------
(* Properties of the ledger of the sequential script.                        *)

\* the step starts the processing of a URL in the sequential script
SourceBegins ==
    /\ script = "seq"
    /\ \E i \in DOMAIN task :
          /\ DOMAIN task' = DOMAIN task
          /\ task[i].pc = "waiting"
          /\ task'[i].pc = "gen"

\* C40: the ledger rebuilt at the start of a URL is the ledger one persistent
\* set would hold: the tuples of the lines the file had when the run began
\* and of the pairs accepted since, which are the tuples of all the lines of
\* the file at that moment.
C40_RebuiltLedgerIsPersistent == [][SourceBegins => ledger' = FileTuples(outfile)]_vars

\* what the rebuilt ledger holds: the tuples of the lines whose question and
\* answer are both non-empty
RebuiltLedgerOfNonEmptyPairs ==
    [][SourceBegins =>
        ledger' = {t \in FileTuples(outfile) : ~Falsy(t[1]) /\ ~Falsy(t[2])}]_vars

\* a second URL of a run begins with a ledger that lacks a pair accepted for
\* the first one
AcceptedPairForgotten ==
    /\ script = "seq"
    /\ qpc = "running"
    /\ Len(task) = 2
    /\ task[1].pc = "done"
    /\ task[1].added = 1
    /\ task[2].pc = "gen"
    /\ task[2].attempt = 0
    /\ FileTuples(outfile) \ ledger # {}

-----------------------------------------------------------------------------
(* Properties of the queue of the crawlers.                                  *)

\* queue holds no URL twice and no URL that is in seen
QueueClean ==
    /\ \A i, j \in 1..Len(queue) : queue[i] = queue[j] => i = j
    /\ SeqToSet(queue) \cap seen = {}

\* the step dequeues a URL and skips it because it is in seen already
SkipsSeen == pc = "loop" /\ pc' = "loop" /\ Len(queue') = Len(queue) - 1

\* the step appends to the queue
Enqueues == pc = "fetch" /\ Len(queue') > Len(queue)

\* C33: a URL is appended to the queue only if it is neither in seen nor in
\* the queue at that moment; in a crawl started without a checkpoint the
\* queue never holds a URL twice nor a URL that is in seen, and the skip of
\* an already seen URL after the dequeue never fires.
C33_QueueHoldsNewUrlsOnly ==
    /\ [][Enqueues =>
            \A k \in (Len(queue) + 1)..Len(queue') :
                /\ queue'[k] \notin seen
                /\ \A j \in 1..(k - 1) : queue'[j] # queue'[k]]_vars
    /\ [](runs = 1 /\ pc # "idle" => QueueClean)
    /\ [][runs = 1 => ~SkipsSeen]_vars

\* a fresh crawl has fetched a page whose links include the page itself and
\* a URL that is in the queue already, and has enqueued neither
C33_Witness ==
    /\ runs = 1
    /\ variant = "http"
    /\ pc \in {"loop", "save"}
    /\ Len(results) >= 2
    /\ queue # <<>>
    /\ \E k \in 1..Len(fetches) :
          /\ fetches[k].kind = "ok"
          /\ IsHtml(fetches[k].ct)
          /\ \E h \in SeqToSet(Hrefs(fetches[k].url)) : h \in seen

\* the same for the runs that resume from a checkpoint the crawlers wrote
QueueCleanOnResume ==
    /\ [](pc # "idle" => QueueClean)
    /\ [][~SkipsSeen]_vars

-----------------------------------------------------------------------------
(* Properties of the checkpoint of Crawl_URL_with_response.py *)

\* the crawler itself replaces the state file (Damage is not the crawler)
WritesCheckpoint == state_file' # state_file /\ state_file' # <<Corrupt>>

\* the iteration that is ending fetched its URL successfully
FetchSucceeded ==
    /\ fetches # <<>>
    /\ fetches[Len(fetches)].url = url
    /\ ~Raises(variant, url, fetches[Len(fetches)].kind)

\* the URLs that left the queue since the checkpoint was written
DequeuedSince == Len(state_file[1].queue) - Len(queue)

\* the memory of the crawler is the checkpoint, less the URLs that were dequeued
\* since and not recorded: they are still in the persisted queue, they are not in
\* the persisted seen
MemoryIsCheckpointLessFailures ==
    LET cp == state_file[1]
        n == DequeuedSince
    IN  /\ n >= 0
        /\ queue = SubSeq(cp.queue, n + 1, Len(cp.queue))
        /\ results = cp.results
        /\ seen = cp.seen \cup {cp.queue[k] : k \in 1..n}
        /\ \A k \in 1..n : cp.queue[k] \notin cp.seen

\* the loop is between the end of an iteration and the end of the next request
BetweenIterations == pc \in {"loop", "fetch"}

InterruptedBeforeCheckpoint ==
    /\ variant = "resp"
    /\ outcome = "interrupted"
    /\ pc = "idle"
    /\ Restores(state_file)
    /\ results # state_file[1].results

-----------------------------------------------------------------------------
(* The browser crawler against the direct-HTTP crawler *)

\* the record carries a content type
HasContentType(rec) == rec.content_type # None

\* the request that has just ended
LastFetch == fetches'[Len(fetches')]

FetchEnds == pc = "fetch" /\ fetches' # fetches

\* Crawl_URL.py, lines 97-140: queue and seen after a request to url that went
\* as kind and, when it did not raise, served content type ct
HttpAfterFetch(q, s, dom, u, kind, ct) ==
    IF Raises("http", u, kind) THEN <<q, s>>
    ELSE <<IF ExtractsLinks("http", ct) THEN EnqueueLinks(q, s, Hrefs(u), dom) ELSE q, s>>

\* the records of every crawler have the fields domain, url and content_type
SameRecordShape == \A k \in 1..Len(results) : HasContentType(results[k])

\* every request moves queue and seen as Crawl_URL.py moves them on the same
\* outcome
SameEvolution ==
    [][FetchEnds => <<queue', seen'>> =
           HttpAfterFetch(queue, seen, domain, url, LastFetch.kind, LastFetch.ct)]_vars

\* C31: the direct-HTTP crawler and the browser crawler produce records of the
\* same shape (domain, url, content_type) and, for the same fetch outcomes, the
\* same evolution of queue and seen
C31_BackendsAgree == []SameRecordShape /\ SameEvolution

\* the browser crawler recorded a page
SeleniumRecorded == variant = "selenium" /\ results # <<>>

\* the browser crawler loaded the page of a non-2xx response, or a page that is
\* not HTML, and went on to its links
SeleniumWentOn ==
    /\ variant = "selenium"
    /\ fetches # <<>>
    /\ \/ fetches[Len(fetches)].kind = "status"
       \/ ~IsHtml(fetches[Len(fetches)].ct)
    /\ fetches[Len(fetches)].url \in ResultUrls(results)

\* the two crawlers that use requests do agree
RequestsBackendsAgree ==
    /\ [](variant # "selenium" => SameRecordShape)
    /\ [][(variant # "selenium" /\ FetchEnds) => <<queue', seen'>> =
           HttpAfterFetch(queue, seen, domain, url, LastFetch.kind, LastFetch.ct)]_vars

-----------------------------------------------------------------------------
(* The list of existing QA handed to the generator by the concurrent script *)

\* task i calls generate_single_qa in this step (lines 167-173)
InvokesGenerator(i) ==
    /\ script = "alt"
    /\ i \in DOMAIN task /\ i \in DOMAIN task'
    /\ task[i].pc # "gen"
    /\ task'[i].pc = "gen"

\* the lines of the output file whose source_url is sid, at the invocation
LinesOfSource(sid) == {k \in 1..Len(outfile') : outfile'[k].source_url = sid}

\* the list passed by task i has an entry for line k of the file
Shown(i, k) ==
    DisplayString(outfile'[k].question, outfile'[k].answer) \in SeqToSet(task'[i].display)

\* C32: at every generator invocation for a source the list of existing QA that
\* is passed holds an entry for every pair of that source in the output file at
\* that moment, also when entries of the same source are processed concurrently
C32_GeneratorSeesAllOfSource ==
    [][\A i \in DOMAIN task :
          InvokesGenerator(i) => \A k \in LinesOfSource(entries[i]) : Shown(i, k)]_vars

\* the same for the pairs with a non-empty question and answer: what is left
\* is the effect of the concurrent entries of one source
GeneratorSeesNonEmptyOfSource ==
    [][\A i \in DOMAIN task :
          InvokesGenerator(i) =>
              \A k \in LinesOfSource(entries[i]) :
                  (~Falsy(outfile'[k].question) /\ ~Falsy(outfile'[k].answer)) => Shown(i, k)]_vars

\* no two entries of the input carry the same source identifier
DistinctSources == \A i, j \in 1..Len(entries) : entries[i] = entries[j] => i = j

\* with one entry per source the list misses no pair with a non-empty question
\* and answer
GeneratorSeesNonEmptyWhenAlone ==
    [][\A i \in DOMAIN task :
          (DistinctSources /\ InvokesGenerator(i)) =>
              \A k \in LinesOfSource(entries[i]) :
                  (~Falsy(outfile'[k].question) /\ ~Falsy(outfile'[k].answer)) => Shown(i, k)]_vars

\* a task is about to call the generator for a source of which the file holds a
\* pair, with a non-empty question, that another task wrote and its list lacks
PairOfOtherTaskUnseen ==
    /\ script = "alt"
    /\ \E i \in DOMAIN task :
          /\ task[i].pc = "gen"
          /\ \E k \in 1..Len(outfile) :
                /\ outfile[k].source_url = entries[i]
                /\ ~Falsy(outfile[k].question)
                /\ k > task[i].base
                /\ DisplayString(outfile[k].question, outfile[k].answer)
                       \notin SeqToSet(task[i].display)

-----------------------------------------------------------------------------
(* Properties of file_lock of the concurrent script *)

\* every state of a running process has each task at an await (or not
\* started, or finished): a lock that has a holder there is held across it
HeldAcrossAwait == file_lock.holder # 0

\* C39: in the concurrent script the file lock is never requested by a task
\* that holds it and never held across an await, so there is no deadlock on
\* it: every request of the lock is granted
C39_FileLockNeverBlocks ==
    [](script = "alt" => ~HeldAcrossAwait /\ ~Blocked)

\* a task took the lock twice between two awaits, for the duplicate check and
\* for the write, while another task was waiting for its generator call
C39_Witness ==
    /\ script = "alt"
    /\ file_lock.obtained = 2
    /\ \E i, j \in DOMAIN task :
          i # j /\ task[i].pc = "sleep" /\ task[i].added > 0 /\ task[j].pc = "gen"

=============================================================================
